---- MODULE Spec2Model ----
(***************************************************************************)
(* A model of rom's write path (src/rom/model.py): Model.__init__,         *)
(* Model.save, Model.delete, Model._apply_changes (both the Lua protocol   *)
(* and the WATCH/MULTI/EXEC fallback), the Lua script _redis_writer_lua    *)
(* and its wrapper redis_writer_lua, and the reads Model.get / get_by.     *)
(* Model.get and Model.get_by are also modelled as functions of their      *)
(* arguments (SpecGet, SpecGetBy), and _ModelMetaclass.__new__ as the      *)
(* action of a class statement on the registry MODELS (SpecReg).           *)
(*                                                                         *)
(* The write path works on one entity type.  Its columns:                  *)
(*   id  PrimaryKey                                                        *)
(*   u   String(unique=True)                                               *)
(*   x   String(index=True, prefix=True, suffix=True, keygen=SIMPLE)       *)
(*   y   Text(index=True, prefix=True, suffix=True, keygen=FULL_TEXT)      *)
(*   unique_together = [('x', 'y')]                                        *)
(* With USE_LUA false the metaclass rejects prefix, suffix and             *)
(* unique_together, so the type registered there has u unique and x, y     *)
(* indexed only.                                                           *)
(*                                                                         *)
(* Text values are sequences of one-character strings, so that k[::-1] and *)
(* the splitting of a text into words are computed, not assumed.           *)
(***************************************************************************)
EXTENDS Integers, Sequences, FiniteSets, TLC

VARIABLES USE_LUA, store, inst, pc, ctx, res, ops, MODELS, call

vars == <<USE_LUA, store, inst, pc, ctx, res, ops, MODELS, call>>

(* ------------------------------ bounds -------------------------------- *)

\* The number of API calls (constructor, attribute assignment, save, delete)
\* in one behaviour.  The last call is a save or a delete: an entity built or
\* assigned to and never applied leaves nothing to observe.
MaxOps == 4

\* The entity instances of the model; instance i is given primary key i.
Insts == {1, 2}

(* ------------------------------ values -------------------------------- *)

\* Python's None, and an absent hash field.
NULL == <<"None">>

\* What the redis client sends for a None argument: the text 'None'.
NoneText == <<"N", "o", "n", "e">>

Digit == <<"1", "2", "3", "4">>

\* The integer primary key i as a Python value, and str(pk).
PyInt(i) == <<"int", Digit[i]>>

RawId(i) == <<Digit[i]>>

RawIds == {RawId(i) : i \in Insts}

\* str(pk): pk is the raw text from the old snapshot or the int of the new data.
Str(pk) == IF Len(pk) = 2 /\ pk[1] = "int" THEN <<pk[2]>> ELSE pk

UVals == {NULL, <<>>, <<"a">>}

XVals == {NULL, <<"a", "b">>, <<"b", "a">>}

YVals == {NULL, <<"a", "b">>, <<"a", "b", " ", "b", "a">>}

ColVals(c) == CASE c = "u" -> UVals [] c = "x" -> XVals [] c = "y" -> YVals

\* Python truthiness of a column value or of a fetched hash value.
Truthy(v) == v # NULL /\ v # <<>>

RECURSIVE Reverse(_)
Reverse(s) == IF s = <<>> THEN <<>> ELSE Append(Reverse(Tail(s)), Head(s))

\* The words of a text, split at blanks.
RECURSIVE Words(_, _)
Words(s, cur) ==
  IF s = <<>> THEN (IF cur = <<>> THEN {} ELSE {cur})
  ELSE IF Head(s) = " "
       THEN (IF cur = <<>> THEN {} ELSE {cur}) \cup Words(Tail(s), <<>>)
       ELSE Words(Tail(s), Append(cur, Head(s)))

Code(ch) == CASE ch = " " -> 0 [] ch = "a" -> 1 [] ch = "b" -> 2 [] OTHER -> 3

\* util._prefix_score: a number that grows with the string order of the
\* token's leading characters.
RECURSIVE PrefixScoreN(_, _)
PrefixScoreN(s, n) ==
  IF n = 0 THEN 0
  ELSE (IF s = <<>> THEN 0 ELSE Code(Head(s)) + 1) * (5 ^ (n - 1))
       + PrefixScoreN(IF s = <<>> THEN <<>> ELSE Tail(s), n - 1)

PrefixScore(s) == PrefixScoreN(s, 2)

(* ------------------------- the registered type ------------------------ *)

cls_columns == {"id", "u", "x", "y"}

cls_pkey == "id"

cls_unique == {"u"}

cls_index == {"x", "y"}

cls_prefix == IF USE_LUA THEN {"x", "y"} ELSE {}

cls_suffix == IF USE_LUA THEN {"x", "y"} ELSE {}

cls_cunique == IF USE_LUA THEN {<<"x", "y">>} ELSE {}

KeygenOf(c) == CASE c = "x" -> "SIMPLE" [] c = "y" -> "FULL_TEXT" [] OTHER -> "NONE"

\* Column._to_redis / Column._from_redis: a text column stores its text, the
\* primary key stores the decimal text of its integer.
ToRedis(c, v) == IF v = NULL THEN NULL ELSE IF c = cls_pkey THEN Str(v) ELSE v

FromRedis(c, r) == IF r = NULL THEN NULL ELSE IF c = cls_pkey THEN <<"int", r[1]>> ELSE r

\* util.SIMPLE and util.FULL_TEXT: what ca._keygen(nval) returns.
Keygen(c, v) ==
  CASE KeygenOf(c) = "SIMPLE" ->
         IF Truthy(v) THEN [shape |-> "dict", tokens |-> {}, scores |-> {<<<<>>, PrefixScore(v)>>}]
         ELSE [shape |-> "none", tokens |-> {}, scores |-> {}]
    [] KeygenOf(c) = "FULL_TEXT" ->
         IF Truthy(v) THEN [shape |-> "list", tokens |-> Words(v, <<>>), scores |-> {}]
         ELSE [shape |-> "none", tokens |-> {}, scores |-> {}]
    [] OTHER -> [shape |-> "none", tokens |-> {}, scores |-> {}]

\* '%s:%s'%(attr, k), and attr alone for the key '' of a keygen dict.
IdxKey(attr, k) == IF k = <<>> THEN <<attr>> ELSE <<attr, ":">> \o k

\* ':'.join(uniq)
CKey(uniq) == uniq[1] \o ":" \o uniq[2]

\* util._encode_unique_constraint: an injective text for a list of values.
EncodeUnique(vals) == vals[1] \o <<"|">> \o vals[2]

(* ------------------------------ the store ----------------------------- *)

NoRow == [c \in cls_columns |-> NULL]

NoManifest == [has |-> FALSE, keys |-> {}, scored |-> {}, pre |-> {}, suf |-> {}]

EmptyStore ==
  [rows |-> [r \in RawIds |-> NoRow],
   uidx |-> {},
   sidx |-> {},
   zidx |-> {},
   pre  |-> {},
   suf  |-> {},
   mf   |-> [r \in RawIds |-> NoManifest]]

\* HGET / HSET / HDEL on the unique-index hashes <namespace>:<col>:uidx.
HGet(uidx, col, val) ==
  IF \E t \in uidx : t[1] = col /\ t[2] = val
  THEN (CHOOSE t \in uidx : t[1] = col /\ t[2] = val)[3]
  ELSE NULL

HSet(uidx, col, val, id) ==
  {t \in uidx : ~(t[1] = col /\ t[2] = val)} \cup {<<col, val, id>>}

HDel(uidx, col, val) == {t \in uidx : ~(t[1] = col /\ t[2] = val)}

RowExists(s, id) == \E c \in cls_columns : s.rows[id][c] # NULL

(* ------------- Model._apply_changes: the delta of one apply ----------- *)
(* old is the raw snapshot self._last, new the Python values to_dict()     *)
(* returns ({} for a delete, so every new.get(c) is None).                 *)

Roval(old, c) == old[c]

Oval(old, c) == FromRedis(c, old[c])

Nval(new, c) == new[c]

Rnval(new, c) == ToRedis(c, new[c])

\* pk = old.get(cls._pkey) or new.get(cls._pkey)
PkOf(old, new) == IF Truthy(old[cls_pkey]) THEN old[cls_pkey] ELSE new[cls_pkey]

\* redis_data: every column whose new value is not None, in storage form.
RedisDataOf(new) == [c \in cls_columns |-> Rnval(new, c)]

\* ca._keygen and not delete and nval is not None and
\* (ca._index or ca._prefix or ca._suffix)
GenCols(new, delete) ==
  {c \in cls_columns :
     /\ KeygenOf(c) # "NONE"
     /\ ~delete
     /\ Nval(new, c) # NULL
     /\ (c \in cls_index \/ c \in cls_prefix \/ c \in cls_suffix)}

KeysOf(new, delete) ==
  UNION {{IdxKey(c, k) : k \in Keygen(c, Nval(new, c)).tokens} :
           c \in {g \in GenCols(new, delete) :
                    Keygen(g, Nval(new, g)).shape = "list" /\ g \in cls_index}}

ScoresOf(new, delete) ==
  UNION {{<<IdxKey(c, p[1]), p[2]>> : p \in Keygen(c, Nval(new, c)).scores} :
           c \in {g \in GenCols(new, delete) : Keygen(g, Nval(new, g)).shape = "dict"}}

PrefixOf(new, delete) ==
  UNION {(IF Keygen(c, Nval(new, c)).shape = "list"
          THEN {<<c, k>> : k \in Keygen(c, Nval(new, c)).tokens}
          ELSE IF Keygen(c, Nval(new, c)).shape = "dict"
                  /\ KeygenOf(c) \in {"SIMPLE", "CASE_INSENSITIVE"}
               THEN {<<c, Nval(new, c)>>}
               ELSE {}) :
           c \in GenCols(new, delete) \cap cls_prefix}

SuffixOf(new, delete) ==
  UNION {(IF Keygen(c, Nval(new, c)).shape = "list"
          THEN {<<c, Reverse(k)>> : k \in Keygen(c, Nval(new, c)).tokens}
          ELSE IF Keygen(c, Nval(new, c)).shape = "dict"
                  /\ KeygenOf(c) \in {"SIMPLE", "CASE_INSENSITIVE"}
               THEN {<<c, Reverse(Nval(new, c))>>}
               ELSE {}) :
           c \in GenCols(new, delete) \cap cls_suffix}

\* The new value compared with the raw old value instead of the decoded one.
ChangedVsRaw(old, new, full, c) == ~(Nval(new, c) = Roval(old, c) /\ ~full)

\* if nval == oval and not full: continue
Changed(old, new, full, c) == ~(Nval(new, c) = Oval(old, c) /\ ~full)

\* if nval is None and oval is not None: the column is removed
Removed(old, new, full, c) ==
  Changed(old, new, full, c) /\ Nval(new, c) = NULL /\ Oval(old, c) # NULL

\* the columns that reach "Add/update column value"
Written(old, new, full, c) ==
  Changed(old, new, full, c) /\ ~Removed(old, new, full, c)

ChangesOf(old, new, full) ==
  Cardinality({c \in cls_columns : Changed(old, new, full, c)})

DeletedOf(old, new, full) == {c \in cls_columns : Removed(old, new, full, c)}

DataOf(old, new, full) ==
  {<<c, Rnval(new, c)>> :
     c \in {w \in cls_columns : Written(old, new, full, w) /\ Nval(new, w) # NULL}}

OData(old, uniq) == <<old[uniq[1]], old[uniq[2]]>>

NData(new, uniq) == <<Rnval(new, uniq[1]), Rnval(new, uniq[2])>>

HasNone(vals) == \E k \in 1..Len(vals) : vals[k] = NULL

\* unique without the test "None not in ndata" for the column groups.
UniqueOfNullsToo(old, new, full) ==
  {<<c, Rnval(new, c)>> :
     c \in {w \in cls_unique : Written(old, new, full, w) /\ Rnval(new, w) # NULL}}
  \cup
  {<<CKey(q), EncodeUnique(NData(new, q))>> : q \in cls_cunique}

\* unique with the group's entry sent only when the tuple changed.
UniqueOfGroupOnChange(old, new, full) ==
  {<<c, Rnval(new, c)>> :
     c \in {w \in cls_unique : Written(old, new, full, w) /\ Rnval(new, w) # NULL}}
  \cup
  {<<CKey(q), EncodeUnique(NData(new, q))>> :
     q \in {g \in cls_cunique :
              OData(old, g) # NData(new, g) /\ ~HasNone(NData(new, g))}}

\* unique: the values the script must check and then own.
UniqueOf(old, new, full) ==
  {<<c, Rnval(new, c)>> :
     c \in {w \in cls_unique : Written(old, new, full, w) /\ Rnval(new, w) # NULL}}
  \cup
  {<<CKey(q), EncodeUnique(NData(new, q))>> :
     q \in {g \in cls_cunique : ~HasNone(NData(new, g))}}

\* udeleted: the values the script must give up.
UDeletedOf(old, new, full) ==
  {<<c, Roval(old, c)>> : c \in {w \in cls_unique : Removed(old, new, full, w)}}
  \cup
  {<<c, Oval(old, c)>> :
     c \in {w \in cls_unique :
              /\ Written(old, new, full, w)
              /\ Oval(old, w) # NULL
              /\ Roval(old, w) # Rnval(new, w)}}
  \cup
  {<<CKey(q), EncodeUnique(OData(old, q))>> :
     q \in {g \in cls_cunique :
              OData(old, g) # NData(new, g) /\ ~HasNone(OData(old, g))}}

(* --------------------- the script _redis_writer_lua ------------------- *)

\* A script whose first loop never returns a column.
ScriptConflictsNone(s, id, unique) == {}

\* The first loop's read-only pass: the columns whose value another id owns.
ScriptConflicts(s, id, unique) ==
  {p[1] : p \in {q \in unique : HGet(s.uidx, q[1], q[2]) \notin {NULL, id}}}

\* A script that checks and writes in one pass: the values found free are set
\* before the conflicting one is met.
ScriptAbortStoreOnePass(s, id, unique) ==
  [s EXCEPT !.uidx =
     {t \in s.uidx : ~\E p \in unique : p[1] = t[1] /\ p[2] = t[2] /\ t[3] \in {NULL, id}}
     \cup {<<p[1], p[2], id>> : p \in {q \in unique : HGet(s.uidx, q[1], q[2]) \in {NULL, id}}}]

\* The store when the script returns the conflicting column: the return is in
\* the pass with write = false, before any HSET.
ScriptAbortStore(s, id, unique) == s

\* A script that leaves the old index memberships where they are.
ScriptUnindexNone(s, id) == s

\* "remove old index data": the manifest entry of the id is read and the id is
\* removed from every key, scored key, prefix and suffix entry it lists.
ScriptUnindex(s, id) ==
  LET idata == s.mf[id]
  IN [s EXCEPT
        !.sidx = {e \in s.sidx : ~(idata.has /\ e[2] = id /\ e[1] \in idata.keys)},
        !.zidx = {e \in s.zidx : ~(idata.has /\ e[2] = id /\ e[1] \in idata.scored)},
        !.pre  = {e \in s.pre : ~(idata.has /\ e[3] = id /\ <<e[1], e[2]>> \in idata.pre)},
        !.suf  = {e \in s.suf : ~(idata.has /\ e[3] = id /\ <<e[1], e[2]>> \in idata.suf)}]

\* The store after the script ran to its end (no conflict).
ScriptStore(s, id, unique, udelete, deleted, data, keys, scored, prefix, suffix, is_delete) ==
  LET u1    == {t \in s.uidx : ~\E p \in unique : p[1] = t[1] /\ p[2] = t[2]}
               \cup {<<p[1], p[2], id>> : p \in unique}
      u2    == {t \in u1 : ~(t[3] = id /\ \E p \in udelete : p[1] = t[1] /\ p[2] = t[2])}
      row1  == [c \in cls_columns |-> IF c \in deleted THEN NULL ELSE s.rows[id][c]]
      row2  == [c \in cls_columns |->
                  IF \E p \in data : p[1] = c
                  THEN (CHOOSE p \in data : p[1] = c)[2]
                  ELSE row1[c]]
      s1    == ScriptUnindex(s, id)
      sidx1 == s1.sidx
      zidx1 == s1.zidx
      pre1  == s1.pre
      suf1  == s1.suf
      row3 == IF is_delete THEN NoRow ELSE row2
      sidx2 == sidx1 \cup {<<k, id>> : k \in keys}
      zidx2 == {e \in zidx1 : ~(e[2] = id /\ \E p \in scored : p[1] = e[1])}
               \cup {<<p[1], id, p[2]>> : p \in scored}
      pre2  == {e \in pre1 : ~(e[3] = id /\ \E p \in prefix : p[1] = e[1] /\ p[2] = e[2])}
               \cup {<<p[1], p[2], id, p[3]>> : p \in prefix}
      suf2  == {e \in suf1 : ~(e[3] = id /\ \E p \in suffix : p[1] = e[1] /\ p[2] = e[2])}
               \cup {<<p[1], p[2], id, p[3]>> : p \in suffix}
      mf2   == IF is_delete THEN NoManifest
               ELSE [has    |-> TRUE,
                     keys   |-> keys,
                     scored |-> {p[1] : p \in scored},
                     pre    |-> {<<p[1], p[2]>> : p \in prefix},
                     suf    |-> {<<p[1], p[2]>> : p \in suffix}]
  IN [rows |-> [s.rows EXCEPT ![id] = row3],
      uidx |-> u2,
      sidx |-> sidx2,
      zidx |-> zidx2,
      pre  |-> pre2,
      suf  |-> suf2,
      mf   |-> [s.mf EXCEPT ![id] = mf2]]

\* The write commands the script issues on that run, as <<command, key, column>>.
ScriptWrites(s, id, unique, udelete, deleted, data, keys, scored, prefix, suffix, is_delete) ==
  LET u1    == {t \in s.uidx : ~\E p \in unique : p[1] = t[1] /\ p[2] = t[2]}
               \cup {<<p[1], p[2], id>> : p \in unique}
      idata == s.mf[id]
  IN {<<"HSET", "uidx", p[1]>> : p \in unique}
     \cup {<<"HDEL", "uidx", t[1]>> :
             t \in {g \in u1 : g[3] = id /\ \E p \in udelete : p[1] = g[1] /\ p[2] = g[2]}}
     \cup {<<"HDEL", "row", c>> : c \in deleted}
     \cup {<<"HMSET", "row", p[1]>> : p \in data}
     \cup (IF idata.has /\ idata.keys # {} THEN {<<"SREM", "idx", "">>} ELSE {})
     \cup (IF idata.has /\ idata.scored # {} THEN {<<"ZREM", "idx", "">>} ELSE {})
     \cup (IF idata.has /\ idata.pre # {} THEN {<<"ZREM", "pre", "">>} ELSE {})
     \cup (IF idata.has /\ idata.suf # {} THEN {<<"ZREM", "suf", "">>} ELSE {})
     \cup (IF is_delete THEN {<<"DEL", "row", "">>, <<"HDEL", "manifest", "">>} ELSE {})
     \cup (IF keys # {} THEN {<<"SADD", "idx", "">>} ELSE {})
     \cup (IF scored # {} THEN {<<"ZADD", "idx", "">>} ELSE {})
     \cup (IF prefix # {} THEN {<<"ZADD", "pre", "">>} ELSE {})
     \cup (IF suffix # {} THEN {<<"ZADD", "suf", "">>} ELSE {})
     \cup (IF is_delete THEN {} ELSE {<<"HSET", "manifest", "">>})

\* redis_writer_lua: item.append(_prefix_score(item[-1])) for prefix and suffix.
Scored3(entries) == {<<e[1], e[2], PrefixScore(e[2])>> : e \in entries}

(* ------------------------- entity instances --------------------------- *)

NoData == [c \in cls_columns |-> NULL]

Unborn ==
  [exists |-> FALSE, new |-> TRUE, modified |-> FALSE, deleted |-> FALSE,
   data |-> NoData, last |-> NoData]

NoRes ==
  [op |-> "none", i |-> 0, outcome |-> "ok", col |-> "", changes |-> 0,
   full |-> FALSE, writes |-> {}, old |-> NoData, checks |-> 0, conflicts |-> 0,
   seq |-> 0]

IdleCtx == [op |-> "none", full |-> FALSE, watching |-> FALSE, dirty |-> FALSE,
            checks |-> 0, conflicts |-> 0]

\* The record of the apply that just ended: what save() or delete() returned
\* or raised, the old snapshot it was given (self._last at the call) and the
\* write commands it had the store execute.
Result(op, i, outcome, col, changes, full, writes) ==
  [op |-> op, i |-> i, outcome |-> outcome, col |-> col, changes |-> changes,
   full |-> full, writes |-> writes, old |-> inst[i].last, checks |-> 0,
   conflicts |-> 0, seq |-> res.seq + 1]

NoApply == [NoRes EXCEPT !.seq = res.seq]

\* Model.__init__ of a new entity: the primary key column draws the next id
\* (ids are handed out in order, so instance i is built after instance i-1),
\* every keyword is assigned, and every non-None keyword is copied to _last.
Construct(i, kw) ==
  [exists |-> TRUE, new |-> TRUE, modified |-> FALSE, deleted |-> FALSE,
   data |-> [c \in cls_columns |-> IF c = cls_pkey THEN PyInt(i) ELSE kw[c]],
   last |-> [c \in cls_columns |-> IF c = cls_pkey THEN NULL ELSE ToRedis(c, kw[c])]]

\* Model.save with _new left set after the save.
AfterSaveStillNew(e, data) ==
  [e EXCEPT !.last = data, !.modified = FALSE, !.deleted = FALSE]

\* Model.save, after _apply_changes returned (ret, data).
AfterSave(e, data) ==
  [e EXCEPT !.last = data, !.new = FALSE, !.modified = FALSE, !.deleted = FALSE]

\* Model.delete, after _apply_changes returned.
AfterDelete(e) == [e EXCEPT !.modified = TRUE, !.deleted = TRUE]

\* The keyword arguments a constructor call may pass, and those that pass
\* the unique column alone.
Kwargs ==
  {kw \in [cls_columns \ {cls_pkey} -> UVals \cup XVals \cup YVals] :
     \A c \in cls_columns \ {cls_pkey} : kw[c] \in ColVals(c)}

KwargsU == {kw \in Kwargs : \A c \in cls_columns \ ({cls_pkey} \cup cls_unique) : kw[c] = NULL}

NewFrom(i, kws) ==
  /\ ~inst[i].exists
  /\ \A j \in Insts : j < i => inst[j].exists
  /\ ops + 1 < MaxOps
  /\ \E kw \in kws : inst' = [inst EXCEPT ![i] = Construct(i, kw)]
  /\ res' = NoApply
  /\ ops' = ops + 1
  /\ UNCHANGED <<MODELS, call, USE_LUA, store, pc, ctx>>

New(i) == NewFrom(i, Kwargs)

NewU(i) == NewFrom(i, KwargsU)

\* Column.__set__: assigning an attribute of an entity.
SetAttrOf(i, cols) ==
  /\ inst[i].exists
  /\ pc[i] = "idle"
  /\ ops + 1 < MaxOps
  /\ \E c \in cols : \E v \in ColVals(c) :
       /\ v # inst[i].data[c]
       /\ inst' = [inst EXCEPT ![i].data[c] = v, ![i].modified = TRUE]
  /\ res' = NoApply
  /\ ops' = ops + 1
  /\ UNCHANGED <<MODELS, call, USE_LUA, store, pc, ctx>>

SetAttr(i) == SetAttrOf(i, cls_columns \ {cls_pkey})

SetAttrU(i) == SetAttrOf(i, cls_unique)

\* Model.__init__ with _loading = True: the entity Model.get builds from the
\* hash it fetched; _new is cleared, every stored field is converted with
\* _from_redis and copied raw to _last.
Loaded(row) ==
  [exists |-> TRUE, new |-> FALSE, modified |-> FALSE, deleted |-> FALSE,
   data |-> [c \in cls_columns |-> FromRedis(c, row[c])],
   last |-> row]

\* Model.get(id) when the session no longer holds the entity and the store
\* has the row: the program goes on with the object built from the store.
Load(i) ==
  /\ inst[i].exists
  /\ pc[i] = "idle"
  /\ RowExists(store, RawId(i))
  /\ ops + 1 < MaxOps
  /\ inst' = [inst EXCEPT ![i] = Loaded(store.rows[RawId(i)])]
  /\ res' = NoApply
  /\ ops' = ops + 1
  /\ UNCHANGED <<MODELS, call, USE_LUA, store, pc, ctx>>

(* --------- Model._apply_changes with use_lua: one script call --------- *)

\* _apply_changes(old, new, full, delete) on the Lua path, called by op
\* ("save" or "delete") of instance i.
ApplyLua(i, op, old, new, full, delete) ==
  LET pk      == PkOf(old, new)
      id      == Str(pk)
      unique  == UniqueOf(old, new, full)
      udelete == UDeletedOf(old, new, full)
      deleted == DeletedOf(old, new, full)
      data    == DataOf(old, new, full)
      keys    == KeysOf(new, delete)
      scored  == ScoresOf(new, delete)
      prefix  == Scored3(PrefixOf(new, delete))
      suffix  == Scored3(SuffixOf(new, delete))
      changes == ChangesOf(old, new, full)
  IN IF ~Truthy(pk)
     THEN /\ res' = Result(op, i, "ColumnError", "", 0, full, {})
          /\ UNCHANGED <<store, inst>>
     ELSE IF ScriptConflicts(store, id, unique) # {}
     THEN /\ \E col \in ScriptConflicts(store, id, unique) :
               res' = Result(op, i, "UniqueKeyViolation", col, 0, full, {})
          /\ store' = ScriptAbortStore(store, id, unique)
          /\ UNCHANGED inst
     ELSE /\ store' = ScriptStore(store, id, unique, udelete, deleted, data,
                                  keys, scored, prefix, suffix, delete)
          /\ res' = Result(op, i, "ok", "", changes, full,
                           ScriptWrites(store, id, unique, udelete, deleted, data,
                                        keys, scored, prefix, suffix, delete))
          /\ inst' = [inst EXCEPT ![i] =
                        IF delete THEN AfterDelete(inst[i])
                        ELSE AfterSave(inst[i], RedisDataOf(new))]

SaveLua(i) ==
  /\ USE_LUA
  /\ inst[i].exists
  /\ ops < MaxOps
  /\ \E full \in BOOLEAN :
       ApplyLua(i, "save", inst[i].last, inst[i].data, full \/ inst[i].new, FALSE)
  /\ ops' = ops + 1
  /\ UNCHANGED <<MODELS, call, USE_LUA, pc, ctx>>

DeleteLua(i) ==
  /\ USE_LUA
  /\ inst[i].exists
  /\ ops < MaxOps
  /\ ApplyLua(i, "delete", inst[i].last, NoData, FALSE, TRUE)
  /\ ops' = ops + 1
  /\ UNCHANGED <<MODELS, call, USE_LUA, pc, ctx>>


(* ------- Model._apply_changes without use_lua: WATCH/MULTI/EXEC ------- *)

\* if not (nuval and (ouval != nuvale or full)): continue
FBNeedsCheck(old, new, full) ==
  \E c \in cls_unique :
    Truthy(Nval(new, c)) /\ (Roval(old, c) # Rnval(new, c) \/ full)

\* ival = pipe.hget(ikey, nuvale); if not ival or ival == str(pk)
FBOwnerOk(s, id, new) ==
  \A c \in cls_unique :
    LET ival == HGet(s.uidx, c, Rnval(new, c))
    IN ~Truthy(ival) \/ ival = id

\* The top of the while loop: where the attempt goes first.
FBLoopTop(old, new, full) == IF FBNeedsCheck(old, new, full) THEN "watch" ELSE "exec"

\* A retry that goes straight back to queueing the commands.
FBRetryTopNoCheck(old, new, full) == "exec"

\* A retry that checks the value again without watching the key again.
FBRetryTopNoWatch(old, new, full) == "hget"

\* except WatchError: continue -- the next attempt starts at the top of the
\* loop, with the unique-value check in it.
FBRetryTop(old, new, full) == FBLoopTop(old, new, full)

\* The argument the client sends for pipe.hset(ikey, rnval, pk): rnval is
\* None when a full save writes a unique column that is None.
FBArg(v) == IF v = NULL THEN NoneText ELSE v

\* The queued unique-index commands of column c, in order: pipe.hdel(ikey,
\* roval) for a removed column; else pipe.hdel(ikey, roval) when there was an
\* old value, then pipe.hset(ikey, rnval, pk).
FBUidxCol(uidx, id, old, new, full, c) ==
  IF Removed(old, new, full, c) THEN HDel(uidx, c, Roval(old, c))
  ELSE IF Written(old, new, full, c)
       THEN HSet(IF Oval(old, c) # NULL THEN HDel(uidx, c, Roval(old, c)) ELSE uidx,
                 c, FBArg(Rnval(new, c)), id)
       ELSE uidx

\* GeneralIndex.index: add the id under the given entries and record them.
GIndexIndex(s, id, keys, scored, prefix, suffix) ==
  [s EXCEPT
     !.sidx = s.sidx \cup {<<k, id>> : k \in keys},
     !.zidx = {e \in s.zidx : ~(e[2] = id /\ \E p \in scored : p[1] = e[1])}
              \cup {<<p[1], id, p[2]>> : p \in scored},
     !.pre  = s.pre \cup {<<p[1], p[2], id, p[3]>> : p \in prefix},
     !.suf  = s.suf \cup {<<p[1], p[2], id, p[3]>> : p \in suffix},
     !.mf[id] = [has    |-> TRUE,
                 keys   |-> keys,
                 scored |-> {p[1] : p \in scored},
                 pre    |-> {<<p[1], p[2]>> : p \in prefix},
                 suf    |-> {<<p[1], p[2]>> : p \in suffix}]]

\* GeneralIndex._unindex: drop every index membership of the id and its record.
GIndexUnindex(s, id) ==
  [s EXCEPT
     !.sidx = {e \in s.sidx : e[2] # id},
     !.zidx = {e \in s.zidx : e[2] # id},
     !.pre  = {e \in s.pre : e[3] # id},
     !.suf  = {e \in s.suf : e[3] # id},
     !.mf[id] = NoManifest]

\* The store after pipe.execute() committed the queued commands.
FBStore(s, id, old, new, full, delete) ==
  LET uidx1 == IF cls_unique = {} THEN s.uidx
               ELSE FBUidxCol(s.uidx, id, old, new, full, CHOOSE c \in cls_unique : TRUE)
      row1  == [c \in cls_columns |->
                  IF Removed(old, new, full, c) THEN NULL ELSE s.rows[id][c]]
      row2  == [c \in cls_columns |->
                  IF \E p \in DataOf(old, new, full) : p[1] = c
                  THEN Rnval(new, c) ELSE row1[c]]
      s1    == [s EXCEPT !.uidx = uidx1,
                         !.rows[id] = IF delete THEN NoRow ELSE row2]
  IN IF delete THEN GIndexUnindex(s1, id)
     ELSE GIndexIndex(s1, id, KeysOf(new, delete), ScoresOf(new, delete),
                      Scored3(PrefixOf(new, delete)), Scored3(SuffixOf(new, delete)))

\* The write commands queued on the pipeline, as <<command, key, column>>.
FBWrites(old, new, full, delete) ==
  {<<"HDEL", "row", c>> : c \in DeletedOf(old, new, full)}
  \cup {<<"HDEL", "uidx", c>> :
          c \in {w \in cls_unique :
                   Removed(old, new, full, w)
                   \/ (Written(old, new, full, w) /\ Oval(old, w) # NULL)}}
  \cup {<<"HSET", "uidx", c>> : c \in {w \in cls_unique : Written(old, new, full, w)}}
  \cup {<<"HMSET", "row", p[1]>> : p \in DataOf(old, new, full)}
  \cup (IF delete THEN {<<"DEL", "row", "">>, <<"HDEL", "manifest", "">>}
        ELSE {<<"HSET", "manifest", "">>}
             \cup (IF KeysOf(new, delete) # {} THEN {<<"SADD", "idx", "">>} ELSE {})
             \cup (IF ScoresOf(new, delete) # {} THEN {<<"ZADD", "idx", "">>} ELSE {}))

\* Whether the commit modifies the watched key <namespace>:<col>:uidx: an HSET
\* always does, an HDEL does when the field is there.
FBTouches(s, old, new, full) ==
  \E c \in cls_unique :
    \/ Written(old, new, full, c)
    \/ (Removed(old, new, full, c) /\ HGet(s.uidx, c, Roval(old, c)) # NULL)

\* The snapshots of the apply instance i is in: save passes (self._last,
\* to_dict()), delete passes (self._last, {}).
OldOf(i) == inst[i].last

NewOf(i, op) == IF op = "delete" THEN NoData ELSE inst[i].data

\* save() or delete() is called: the primary key is looked up and the loop
\* is entered.
FBBegin(i) ==
  /\ ~USE_LUA
  /\ inst[i].exists
  /\ pc[i] = "idle"
  /\ ops < MaxOps
  /\ \E op \in {"save", "delete"} : \E full \in BOOLEAN :
       LET eff == IF op = "save" THEN full \/ inst[i].new ELSE FALSE
       IN /\ (op = "delete" => ~full)
          /\ IF ~Truthy(PkOf(OldOf(i), NewOf(i, op)))
             THEN /\ res' = Result(op, i, "ColumnError", "", 0, eff, {})
                  /\ UNCHANGED <<pc, ctx>>
             ELSE /\ pc' = [pc EXCEPT ![i] = FBLoopTop(OldOf(i), NewOf(i, op), eff)]
                  /\ ctx' = [ctx EXCEPT ![i] = [IdleCtx EXCEPT !.op = op, !.full = eff]]
                  /\ res' = NoApply
  /\ ops' = ops + 1
  /\ UNCHANGED <<MODELS, call, USE_LUA, store, inst>>

\* pipe.watch(ikey)
FBWatch(i) ==
  /\ pc[i] = "watch"
  /\ pc' = [pc EXCEPT ![i] = "hget"]
  /\ ctx' = [ctx EXCEPT ![i].watching = TRUE, ![i].dirty = FALSE]
  /\ res' = NoApply
  /\ UNCHANGED <<MODELS, call, USE_LUA, store, inst, ops>>

\* pipe.hget(ikey, nuvale) and the ownership test: pipe.multi(), or
\* pipe.unwatch() and raise UniqueKeyViolation.
FBHGet(i) ==
  /\ pc[i] = "hget"
  /\ LET new == NewOf(i, ctx[i].op)
         id  == Str(PkOf(OldOf(i), new))
     IN IF FBOwnerOk(store, id, new)
        THEN /\ pc' = [pc EXCEPT ![i] = "exec"]
             /\ ctx' = [ctx EXCEPT ![i].checks = ctx[i].checks + 1]
             /\ res' = NoApply
        ELSE /\ pc' = [pc EXCEPT ![i] = "idle"]
             /\ ctx' = [ctx EXCEPT ![i] = IdleCtx]
             /\ res' = [Result(ctx[i].op, i, "UniqueKeyViolation",
                               CHOOSE c \in cls_unique : TRUE, 0, ctx[i].full, {})
                          EXCEPT !.checks = ctx[i].checks + 1,
                                 !.conflicts = ctx[i].conflicts]
  /\ UNCHANGED <<MODELS, call, USE_LUA, store, inst, ops>>

\* pipe.execute(): WatchError when a watched key was modified since the
\* WATCH (the loop starts again), else the queued commands take effect and
\* _apply_changes returns (changes, redis_data).
FBExec(i) ==
  /\ pc[i] = "exec"
  /\ LET op     == ctx[i].op
         old    == OldOf(i)
         new    == NewOf(i, op)
         full   == ctx[i].full
         delete == (op = "delete")
         id     == Str(PkOf(old, new))
     IN IF ctx[i].watching /\ ctx[i].dirty
        THEN /\ pc' = [pc EXCEPT ![i] = FBRetryTop(old, new, full)]
             /\ ctx' = [ctx EXCEPT ![i].watching = FALSE, ![i].dirty = FALSE,
                                   ![i].conflicts = ctx[i].conflicts + 1]
             /\ res' = NoApply
             /\ UNCHANGED <<store, inst>>
        ELSE /\ store' = FBStore(store, id, old, new, full, delete)
             /\ pc' = [pc EXCEPT ![i] = "idle"]
             /\ ctx' = [j \in Insts |->
                          IF j = i THEN IdleCtx
                          ELSE IF ctx[j].watching /\ FBTouches(store, old, new, full)
                               THEN [ctx[j] EXCEPT !.dirty = TRUE]
                               ELSE ctx[j]]
             /\ res' = [Result(op, i, "ok", "",
                               ChangesOf(old, new, full) + (IF delete THEN 1 ELSE 0),
                               full, FBWrites(old, new, full, delete))
                          EXCEPT !.checks = ctx[i].checks,
                                 !.conflicts = ctx[i].conflicts]
             /\ inst' = [inst EXCEPT ![i] =
                           IF delete THEN AfterDelete(inst[i])
                           ELSE AfterSave(inst[i], RedisDataOf(new))]
  /\ UNCHANGED <<MODELS, call, USE_LUA, ops>>

(* ------------------------ Model.get and get_by ------------------------ *)

\* Model.get(id) when the session does not hold the entity: HGETALL of the
\* row; an empty reply gives None, else the entity is loaded from the reply.
Get(s, id) ==
  [found |-> RowExists(s, id),
   data  |-> [c \in cls_columns |-> FromRedis(c, s.rows[id][c])]]

\* Model.get_by(attr=value) on a unique column: HMGET of the unique index,
\* None if no id comes back, else get of that id.
GetBy(s, attr, value) ==
  LET ids == HGet(s.uidx, attr, ToRedis(attr, value))
  IN IF ~Truthy(ids) \/ ids \notin RawIds
     THEN [found |-> FALSE, data |-> NoData]
     ELSE Get(s, ids)

(* ------------------------ Model.get(ids), whole ----------------------- *)
(* The call is a function of its argument, of the session (the identity    *)
(* cache, here the set of primary keys it holds an entity for) and of the  *)
(* rows of the store.  An entity is <<"session", d>> when the session gave *)
(* it and <<"loaded", d>> when get built it from a row.                    *)

\* The longest list of ids a get call is given.
MaxIds == 3

\* The primary keys a call may name; the store has rows for RawIds only.
GetIdNums == {1, 2, 3}

RECURSIVE SeqsUpTo(_, _)
SeqsUpTo(S, n) ==
  IF n = 0 THEN {<<>>}
  ELSE LET shorter == SeqsUpTo(S, n - 1)
       IN shorter \cup {Append(q, x) : q \in {r \in shorter : Len(r) = n - 1}, x \in S}

\* conn.hgetall(pk): the row, empty for a key the store does not hold.
HGetAll(s, id) == IF id \in DOMAIN s.rows THEN s.rows[id] ELSE NoRow

\* session.get(pk)
SessionGet(session, id) == IF id \in session THEN <<"session", Str(id)[1]>> ELSE NULL

\* out = list(map(session.get, pks))
GetFromSession(session, ids) == [k \in 1..Len(ids) |-> SessionGet(session, ids[k])]

\* for i, data in zip(idxs, pipe.execute()): if data: out[i] = cls(_loading=True, **data)
GetLoad(s, out, ids) ==
  [k \in 1..Len(ids) |->
     IF out[k] = NULL /\ HGetAll(s, Str(ids[k])) # NoRow
     THEN <<"loaded", Str(ids[k])[1]>>
     ELSE out[k]]

GetKeepAll(out) == out

\* out = [x for x in out if x]
GetKeep(out) == SelectSeq(out, LAMBDA x : x # NULL)

\* The list get works on, after "if single: ids = [ids]".
GetList(ids, single) == IF single THEN <<ids>> ELSE ids

\* The list before the return statement.
GetOut(s, session, ids, single) ==
  LET lst == GetList(ids, single)
      out == GetFromSession(session, lst)
  IN IF \E k \in 1..Len(out) : out[k] = NULL
     THEN GetKeep(GetLoad(s, out, lst))
     ELSE out

\* if single: return out[0] if out else None; return out
GetAll(s, session, ids, single) ==
  LET out == GetOut(s, session, ids, single)
  IN IF single
     THEN [shape |-> "one", val |-> IF out # <<>> THEN out[1] ELSE NULL]
     ELSE [shape |-> "list", val |-> out]

\* Model.__init__ adds what get built to the session.
GetSession(s, session, ids, single) ==
  session \cup {PyInt(i) : i \in {j \in GetIdNums :
                   <<"loaded", Digit[j]>> \in
                     {GetOut(s, session, ids, single)[k] :
                        k \in 1..Len(GetOut(s, session, ids, single))}}}

\* A store in which the entities of the instances in S were saved with no
\* column set: the row holds the primary key alone.
RowsStore(S) ==
  [EmptyStore EXCEPT
     !.rows = [r \in RawIds |->
                 IF r \in {RawId(i) : i \in S} THEN [NoRow EXCEPT ![cls_pkey] = r] ELSE NoRow],
     !.mf   = [r \in RawIds |->
                 IF r \in {RawId(i) : i \in S} THEN [NoManifest EXCEPT !.has = TRUE]
                 ELSE NoManifest]]

NoCall == [fn |-> "none", state |-> "none"]

\* The calls with a list of ids, and the calls with a single id.
GetCallsList ==
  {[fn |-> "get", state |-> "called", single |-> FALSE, ids |-> ids, session |-> ss]
     : ids \in SeqsUpTo({PyInt(i) : i \in GetIdNums}, MaxIds),
       ss \in SUBSET {PyInt(i) : i \in GetIdNums}}

GetCallsOne ==
  {[fn |-> "get", state |-> "called", single |-> TRUE, ids |-> id, session |-> ss]
     : id \in {PyInt(i) : i \in GetIdNums},
       ss \in SUBSET {PyInt(i) : i \in GetIdNums}}

GetCall ==
  /\ call.fn = "get"
  /\ call.state = "called"
  /\ call' = [fn |-> "get", state |-> "returned", single |-> call.single,
              ids |-> call.ids, session |-> call.session,
              ret |-> GetAll(store, call.session, call.ids, call.single),
              after |-> GetSession(store, call.session, call.ids, call.single)]
  /\ UNCHANGED <<USE_LUA, store, inst, pc, ctx, res, ops, MODELS>>

(* ----------------------------- Model.get_by --------------------------- *)
(* A call is its keywords: _limit (given or not, a sequence of elements),  *)
(* _numeric (absent, True or False) and the column criteria, each with the *)
(* flags of its column (attr in cls._unique, attr in cls._index) and its   *)
(* value.  A value is its kind (str, num, bool, list, tuple) and elements. *)
(* hit is the set of positions for which the index the call reads has an   *)
(* id: position k answers with the id k.                                   *)

\* The longest tuple given as a value or as _limit.
MaxTuple == 3

\* The most column criteria in one call.
MaxCriteria == 2

BoolTrue == <<"bool", "True">>

MinusInf == <<"-", "i", "n", "f">>

PlusInf == <<"i", "n", "f">>

\* isinstance(x, six.integer_types): a bool is an int.
IsInteger(x) == x[1] \in {"int", "bool"}

\* _limit = kwargs.pop('_limit', ())
GetByLimit(kw) == IF kw.limit.given THEN kw.limit.elems ELSE <<>>

GetByLimitErrorLengthOnly(lim) == lim # <<>> /\ Len(lim) # 2

\* The two tests of _limit: an empty _limit passes both.
GetByLimitError(lim) ==
  lim # <<>> /\ (Len(lim) # 2 \/ \E k \in 1..Len(lim) : ~IsInteger(lim[k]))

\* len(kwargs) at the test of line 577: _limit was popped, _numeric was not.
GetByCount(kw) == Len(kw.cols) + IF kw.numeric = "absent" THEN 0 ELSE 1

\* _numeric = bool(kwargs.pop('_numeric', None))
GetByNumeric(kw) == kw.numeric = "True"

QueryError(msg) ==
  [outcome |-> "QueryError", via |-> "none", msg |-> msg, args |-> <<>>,
   ret |-> [shape |-> "none", val |-> NULL]]

GetByReturn(via, args, ret) ==
  [outcome |-> "return", via |-> via, msg |-> "", args |-> args, ret |-> ret]

\* The ids an index answers with, as Model.get reads them (int(id)).
GetByIds(ids) == [k \in 1..Len(ids) |-> FromRedis(cls_pkey, ids[k])]

\* The unique index: ids = [x for x in conn.hmget(..., qvalues) if x]
GetByUnique(s, value, hit) ==
  LET single  == value.kind # "list"
      qvalues == [k \in 1..Len(value.elems) |-> ToRedis("u", value.elems[k])]
      reply   == [k \in 1..Len(qvalues) |-> IF k \in hit THEN RawId(k) ELSE NULL]
      ids     == GetByIds(SelectSeq(reply, LAMBDA x : Truthy(x)))
  IN IF ids = <<>>
     THEN GetByReturn("unique", qvalues,
                      IF single THEN [shape |-> "one", val |-> NULL]
                      ELSE [shape |-> "list", val |-> <<>>])
     ELSE GetByReturn("unique", qvalues,
                      GetAll(s, {}, IF single THEN ids[1] ELSE ids, single))

\* The numeric range: conn.zrangebyscore(key, *args)
GetByRange(s, elems, lim, hit) ==
  LET bounds == [i \in 1..2 |->
                   IF elems[i] = NULL THEN <<MinusInf, PlusInf>>[i]
                   ELSE ToRedis(cls_pkey, elems[i])]
      args   == IF lim # <<>> THEN bounds \o lim ELSE bounds
      reply  == SelectSeq(<<RawId(1), RawId(2)>>,
                          LAMBDA x : \E k \in hit : x = RawId(k))
  IN IF reply = <<>>
     THEN GetByReturn("range", args, [shape |-> "list", val |-> <<>>])
     ELSE GetByReturn("range", args, GetAll(s, {}, GetByIds(reply), FALSE))

NumericScalarOrBool == {"num", "bool"}

\* isinstance(value, NUMERIC_TYPES) and not isinstance(value, bool)
NumericScalar == {"num"}

\* if isinstance(value, tuple) and len(value) != 2
BadEndpoints(value) == value.kind = "tuple" /\ Len(value.elems) # 2

\* The body of the loop for one criterion.
GetByCriterion(s, c, numeric, lim, hit) ==
  LET value == c.value
  IN IF BadEndpoints(value)
     THEN QueryError("Range queries must include exactly two endpoints")
     ELSE IF c.unique /\ (~c.index \/ ~numeric)
     THEN IF value.kind = "tuple"
          THEN QueryError("Cannot query a unique index with a range of values")
          ELSE GetByUnique(s, value, hit)
     ELSE IF ~c.index
     THEN QueryError("Cannot query on a column without an index")
     ELSE LET elems == IF value.kind \in NumericScalar
                       THEN <<value.elems[1], value.elems[1]>>
                       ELSE value.elems
          IN IF value.kind \in NumericScalar \cup {"tuple"}
             THEN GetByRange(s, elems, lim, hit)
             ELSE GetByReturn("query", lim, [shape |-> "query", val |-> value.elems])

\* Model.get_by as a whole.  A call that passes the tests with no column left
\* runs the loop zero times and returns None.
GetByAll(s, kw, hit) ==
  IF GetByLimitError(GetByLimit(kw))
  THEN QueryError("Limit")
  ELSE IF GetByCount(kw) # 1
  THEN QueryError("exactly one attribute")
  ELSE IF kw.cols = <<>>
  THEN GetByReturn("none", <<>>, [shape |-> "one", val |-> NULL])
  ELSE GetByCriterion(s, kw.cols[1], GetByNumeric(kw), GetByLimit(kw), hit)

TupleSeqs(S) == SeqsUpTo(S, MaxTuple)

GetByValues ==
  {[kind |-> "str", elems |-> <<<<"a">>>>],
   [kind |-> "num", elems |-> <<PyInt(1)>>],
   [kind |-> "bool", elems |-> <<BoolTrue>>],
   [kind |-> "list", elems |-> <<<<"a">>>>],
   [kind |-> "list", elems |-> <<<<"a">>, <<"b">>>>]}
  \cup {[kind |-> "tuple", elems |-> e] : e \in TupleSeqs({NULL, PyInt(1)})}

GetByLimits ==
  {[given |-> FALSE, elems |-> <<>>]}
  \cup {[given |-> TRUE, elems |-> e] : e \in TupleSeqs({PyInt(1), BoolTrue, <<"x">>})}

\* The first criterion names a column of any flags; a further one is fixed.
GetByCriteria ==
  {[attr |-> "c", unique |-> u, index |-> x, value |-> v]
     : u \in BOOLEAN, x \in BOOLEAN, v \in GetByValues}

OtherCriterion ==
  [attr |-> "d", unique |-> TRUE, index |-> FALSE,
   value |-> [kind |-> "str", elems |-> <<<<"a">>>>]]

GetByCols ==
  {<<>>} \cup {<<c>> \o more : c \in GetByCriteria,
                              more \in SeqsUpTo({OtherCriterion}, MaxCriteria - 1)}

GetByCalls ==
  {[fn |-> "get_by", state |-> "called",
    kw |-> [limit |-> l, numeric |-> n, cols |-> q], hit |-> h]
     : l \in GetByLimits, n \in {"absent", "True", "False"}, q \in GetByCols,
       h \in SUBSET Insts}

GetByCall ==
  /\ call.fn = "get_by"
  /\ call.state = "called"
  /\ call' = [fn |-> "get_by", state |-> "returned", kw |-> call.kw, hit |-> call.hit,
              out |-> GetByAll(store, call.kw, call.hit)]
  /\ UNCHANGED <<USE_LUA, store, inst, pc, ctx, res, ops, MODELS>>

(* ---------------------- _ModelMetaclass.__new__ ------------------------ *)
(* MODELS is the registry: a function from the names and namespaces of the *)
(* registered types to their metadata.  A class statement is its name, its *)
(* _namespace (None when not given), its base (object, or the key of a     *)
(* registered type), its column attributes (for each attribute name what   *)
(* is declared under it: nothing, a PrimaryKey, a plain column, or a       *)
(* column with unique, prefix or suffix set) and its unique_together.      *)

\* The registrations attempted in one behaviour.
MaxRegs == 2

AttrNames == {"id", "k", "a", "b"}

\* What a class statement may declare under each attribute name.
Declarable(attr) ==
  CASE attr = "id" -> {"absent", "pk", "plain"}
    [] attr = "k"  -> {"absent", "pk"}
    [] attr = "a"  -> {"absent", "plain", "unique", "prefix", "suffix"}
    [] attr = "b"  -> {"absent", "unique"}

NoAttrs == [attr \in AttrNames |-> "absent"]

\* unique_together: not declared, a list of groups, or one flat list of names.
NoUniqueTogether == [given |-> FALSE, flat |-> FALSE, strs |-> <<>>, groups |-> <<>>]

UniqueTogethers ==
  {NoUniqueTogether,
   [given |-> TRUE, flat |-> TRUE, strs |-> <<"a", "k">>, groups |-> <<>>]}
  \cup {[given |-> TRUE, flat |-> FALSE, strs |-> <<>>, groups |-> g] :
          g \in {<<>>, <<<<>>>>, <<<<"a", "k">>>>, <<<<"a", "a">>>>,
                 <<<<"a", "k">>, <<"k", "a">>>>, <<<<"a", "z">>>>}}

\* The class bodies: any columns with no unique_together, and every
\* unique_together over a plain column a and a primary key k or no k.
ClassBodies ==
  {[attrs |-> f, ut |-> NoUniqueTogether] :
     f \in {g \in [AttrNames -> UNION {Declarable(attr) : attr \in AttrNames}] :
              \A attr \in AttrNames : g[attr] \in Declarable(attr)}}
  \cup
  {[attrs |-> [NoAttrs EXCEPT !["a"] = "plain", !["k"] = kk], ut |-> u] :
     kk \in Declarable("k"), u \in UniqueTogethers \ {NoUniqueTogether}}

TypeNames == {"A", "B"}

Namespaces == {NULL, <<"A">>}

\* dict['_namespace'] = ns or name, as a registry key
NamespaceOf(name, ns) == IF Truthy(ns) THEN ns[1] ELSE name

NameTaken(models, name, nsv) == name \in DOMAIN models

\* if name in MODELS or dict['_namespace'] in MODELS
NameOrNamespaceTaken(models, name, nsv) == name \in DOMAIN models \/ nsv \in DOMAIN models

\* odict: the columns of the base, then what the class statement declares.
Odict(models, base, attrs) ==
  [attr \in AttrNames |->
     IF attrs[attr] # "absent" THEN attrs[attr]
     ELSE IF base \in DOMAIN models THEN models[base].columns[attr]
     ELSE "absent"]

PrimaryKeysOf(dict) == {attr \in AttrNames : dict[attr] = "pk"}

\* if not any(isinstance(col, PrimaryKey) ...): dict['id'] = PrimaryKey()
WithSynthesizedId(dict) ==
  IF PrimaryKeysOf(dict) = {} THEN [dict EXCEPT !["id"] = "pk"] ELSE dict

UniqueColumnsOf(dict) == {attr \in AttrNames : dict[attr] = "unique"}

PrefixColumnsOf(dict) == {attr \in AttrNames : dict[attr] = "prefix"}

SuffixColumnsOf(dict) == {attr \in AttrNames : dict[attr] = "suffix"}

NeedsLuaUniqueTogetherOnly(dict, ut) == ut.given

\* What the loop over the attributes refuses when USE_LUA is false.
NeedsLua(dict, ut) ==
  \/ PrefixColumnsOf(dict) # {}
  \/ SuffixColumnsOf(dict) # {}
  \/ Cardinality(UniqueColumnsOf(dict)) > 1
  \/ ut.given

\* if composite_unique and isinstance(composite_unique[0], six.string_types)
CompositeList(ut) == IF ut.flat /\ ut.strs # <<>> THEN <<ut.strs>> ELSE ut.groups

\* key = tuple(sorted(set(comp))), as the set of its columns
GroupKey(comp) == {comp[k] : k \in 1..Len(comp)}

\* The loop over the groups: the groups stored so far, or the error.
RECURSIVE Cuniques(_, _, _)
Cuniques(comps, dict, seen) ==
  IF comps = <<>> THEN [error |-> "none", cunique |-> seen]
  ELSE LET key == GroupKey(Head(comps))
       IN IF Cardinality(key) = 1
          THEN [error |-> "Single-column unique constraint", cunique |-> seen]
          ELSE IF key \in seen
          THEN [error |-> "not different than earlier constraint", cunique |-> seen]
          ELSE IF \E col \in key : col \notin AttrNames \/ dict[col] = "absent"
          THEN [error |-> "references non-existant column", cunique |-> seen]
          ELSE Cuniques(Tail(comps), dict, seen \cup {key})

NoType ==
  [name |-> "", namespace |-> "", columns |-> NoAttrs, pkey |-> {}, unique |-> {},
   prefix |-> {}, suffix |-> {}, cunique |-> {}]

Raised(kind, msg) == [error |-> kind, msg |-> msg, model |-> NoType]

\* _ModelMetaclass.__new__(cls, name, bases, dict): what it raises or the
\* type it registers.  pkey is the set of the names the loop would store in
\* _pkey: it has one element when the loop raises nothing.
NewModel(models, lua, name, ns, base, attrs, ut) ==
  LET nsv   == NamespaceOf(name, ns)
      odict == Odict(models, base, attrs)
      dict  == WithSynthesizedId(odict)
      comp  == Cuniques(CompositeList(ut), dict, {})
  IN IF NameOrNamespaceTaken(models, name, nsv)
     THEN Raised("ORMError", "Cannot have two models with the same name or namespace")
     ELSE IF PrimaryKeysOf(odict) = {} /\ odict["id"] # "absent"
     THEN Raised("ColumnError", "Cannot have non-primary key named 'id'")
     ELSE IF ~lua /\ NeedsLua(dict, ut)
     THEN Raised("ColumnError", "Lua scripting must be enabled")
     ELSE IF Cardinality(PrimaryKeysOf(dict)) > 1
     THEN Raised("ColumnError", "Only one primary key column allowed")
     ELSE IF comp.error # "none"
     THEN Raised("ColumnError", comp.error)
     ELSE [error |-> "none", msg |-> "",
           model |-> [name |-> name, namespace |-> nsv, columns |-> dict,
                      pkey |-> PrimaryKeysOf(dict), unique |-> UniqueColumnsOf(dict),
                      prefix |-> PrefixColumnsOf(dict), suffix |-> SuffixColumnsOf(dict),
                      cunique |-> comp.cunique]]

\* MODELS[dict['_namespace']] = MODELS[name] = model
Registered(models, model) ==
  [key \in DOMAIN models \cup {model.name, model.namespace} |->
     IF key \in {model.name, model.namespace} THEN model ELSE models[key]]

\* The registry after the module is imported: class Model itself.
BaseModels ==
  Registered(<<>>, NewModel(<<>>, TRUE, "Model", NULL, "object", NoAttrs,
                            NoUniqueTogether).model)

\* The bases of a class statement: object, Model, or a registered type.
Bases == {"object", "Model"} \cup TypeNames

\* A class statement is executed.
RegisterModel ==
  /\ call.fn \in {"none", "class"}
  /\ ops < MaxRegs
  /\ \E name \in TypeNames, ns \in Namespaces, base \in Bases, body \in ClassBodies :
       /\ base = "object" \/ base \in DOMAIN MODELS
       /\ LET out == NewModel(MODELS, USE_LUA, name, ns, base, body.attrs, body.ut)
          IN /\ call' = [fn |-> "class", state |-> "returned", name |-> name,
                         namespace |-> NamespaceOf(name, ns), base |-> base,
                         attrs |-> body.attrs, ut |-> body.ut, before |-> MODELS,
                         out |-> out]
             /\ MODELS' = IF out.error = "none" THEN Registered(MODELS, out.model)
                          ELSE MODELS
  /\ ops' = ops + 1
  /\ UNCHANGED <<USE_LUA, store, inst, pc, ctx, res>>

(* --------------------------- specifications --------------------------- *)

InitWith(lua) ==
  /\ USE_LUA = lua
  /\ store = EmptyStore
  /\ inst = [i \in Insts |-> Unborn]
  /\ pc = [i \in Insts |-> "idle"]
  /\ ctx = [i \in Insts |-> IdleCtx]
  /\ res = NoRes
  /\ ops = 0
  /\ MODELS = BaseModels
  /\ call = NoCall

InitLua == InitWith(TRUE)

NextLua == \E i \in Insts : New(i) \/ SetAttr(i) \/ SaveLua(i) \/ DeleteLua(i)

SpecLua == InitLua /\ [][NextLua]_vars

InitFB == InitWith(FALSE)

FBStep(i) == FBWatch(i) \/ FBHGet(i) \/ FBExec(i)

NextFB == \E i \in Insts : New(i) \/ SetAttr(i) \/ FBBegin(i) \/ FBStep(i)

SpecFB == InitFB /\ [][NextFB]_vars

\* The fallback with entities that use the unique column alone.
NextFBU == \E i \in Insts : NewU(i) \/ SetAttrU(i) \/ FBBegin(i) \/ FBStep(i)

\* An apply that was started runs on: the caller executes the loop without
\* waiting for anything but the store's replies.
SpecFBLive == InitFB /\ [][NextFBU]_vars /\ \A i \in Insts : WF_vars(FBStep(i))

\* Calls of Model.get, each on a store and a session drawn at the start.
InitGet ==
  /\ USE_LUA = TRUE
  /\ \E S \in SUBSET Insts : store = RowsStore(S)
  /\ inst = [i \in Insts |-> Unborn]
  /\ pc = [i \in Insts |-> "idle"]
  /\ ctx = [i \in Insts |-> IdleCtx]
  /\ res = NoRes
  /\ ops = 0
  /\ MODELS = BaseModels
  /\ (call \in GetCallsList \/ call \in GetCallsOne)

NextGet == GetCall

SpecGet == InitGet /\ [][NextGet]_vars

\* Calls of Model.get_by on a store that has the rows of both ids.
InitGetBy ==
  /\ USE_LUA = TRUE
  /\ store = RowsStore(Insts)
  /\ inst = [i \in Insts |-> Unborn]
  /\ pc = [i \in Insts |-> "idle"]
  /\ ctx = [i \in Insts |-> IdleCtx]
  /\ res = NoRes
  /\ ops = 0
  /\ MODELS = BaseModels
  /\ call \in GetByCalls

NextGetBy == GetByCall

SpecGetBy == InitGetBy /\ [][NextGetBy]_vars

\* Class statements, with USE_LUA either way.
InitReg == InitLua \/ InitFB

NextReg == RegisterModel

SpecReg == InitReg /\ [][NextReg]_vars

\* The calls the retry specification makes.
RetryOps == 6

\* Entities that use the unique column alone, under either protocol, which
\* the program may load again from the store, with room for RetryOps calls: a save that fails on the unique column, a change
\* of the column and the save again need two more calls than MaxOps.
InitRetry ==
  /\ USE_LUA \in BOOLEAN
  /\ store = EmptyStore
  /\ inst = [i \in Insts |-> Unborn]
  /\ pc = [i \in Insts |-> "idle"]
  /\ ctx = [i \in Insts |-> IdleCtx]
  /\ res = NoRes
  /\ ops = MaxOps - RetryOps
  /\ MODELS = BaseModels
  /\ call = NoCall

NextRetry ==
  \E i \in Insts :
    \/ NewU(i) \/ SetAttrU(i) \/ Load(i)
    \/ SaveLua(i) \/ DeleteLua(i) \/ FBBegin(i) \/ FBStep(i)

SpecRetry == InitRetry /\ [][NextRetry]_vars

Init == InitLua \/ InitFB

Next == NextLua \/ NextFB

Spec == Init /\ [][Next]_vars

(* ------------------------------ properties ---------------------------- *)

\* The step completes a save() of instance i.
SaveDone(i) == res'.seq # res.seq /\ res'.op = "save" /\ res'.i = i

\* The step completes a delete() of instance i.
DeleteDone(i) == res'.seq # res.seq /\ res'.op = "delete" /\ res'.i = i

\* The entries of the unique-index hash of a column or of a column group.
UidxOf(s, col) == {t \in s.uidx : t[1] = col}

\* C1: on the Lua path, a save that carries a non-null value of a unique
\* column to the script raises UniqueKeyViolation when the unique index maps
\* that value to another primary key, and then the store and the instance
\* are as they were (the index still maps the value to the first owner, no
\* row, index or manifest of the loser appears); a save that succeeds owns
\* the value afterwards; and a save whose carried values are all free or its
\* own succeeds.
C1_Step ==
  \A i \in Insts :
    (USE_LUA /\ SaveDone(i)) =>
      LET id      == RawId(i)
          carried == UniqueOf(inst[i].last, inst[i].data, res'.full)
      IN /\ \A p \in {q \in carried : q[1] \in cls_unique} :
              LET owner == HGet(store.uidx, p[1], p[2])
              IN IF owner \notin {NULL, id}
                 THEN /\ res'.outcome = "UniqueKeyViolation"
                      /\ store' = store
                      /\ inst' = inst
                 ELSE res'.outcome = "ok" => HGet(store'.uidx, p[1], p[2]) = id
         /\ (\A p \in carried : HGet(store.uidx, p[1], p[2]) \in {NULL, id})
              => res'.outcome = "ok"

C1_OneWinner == [][C1_Step]_vars

\* A second entity's save of a value that the first owns has just raised.
C1_Witness ==
  /\ USE_LUA
  /\ res.op = "save"
  /\ res.outcome = "UniqueKeyViolation"
  /\ res.col = "u"
  /\ inst[res.i].data["u"] # NULL
  /\ \E j \in Insts \ {res.i} :
       /\ HGet(store.uidx, "u", inst[res.i].data["u"]) = RawId(j)
       /\ store.rows[RawId(j)]["u"] = inst[res.i].data["u"]
       /\ ~RowExists(store, RawId(res.i))

\* C2: on either protocol, a save() that raises UniqueKeyViolation leaves the
\* store (rows, unique indexes, secondary indexes, manifests) and every
\* instance (values, last-persisted snapshot, flags) exactly as they were;
\* and no step of an apply that has not completed successfully changes the
\* store, so an attempt that ends in the violation has written nothing on
\* its way.
C2_Step ==
  /\ (res'.seq # res.seq /\ res'.outcome = "UniqueKeyViolation")
       => (store' = store /\ inst' = inst)
  /\ (store' # store) => (res'.seq # res.seq /\ res'.outcome = "ok")

C2_NoPartialEffect == [][C2_Step]_vars

\* A save has just raised for the column group while the value of its unique
\* column, which the same call carried, is free: nothing of it was written.
C2_Witness ==
  /\ res.op = "save"
  /\ res.outcome = "UniqueKeyViolation"
  /\ res.col = "x:y"
  /\ inst[res.i].data["u"] # NULL
  /\ HGet(store.uidx, "u", inst[res.i].data["u"]) = NULL
  /\ inst[res.i].new
  /\ ~RowExists(store, RawId(res.i))

\* The id is a member of no set, range, prefix or suffix index.
NoIndexMember(s, id) ==
  /\ ~\E e \in s.sidx : e[2] = id
  /\ ~\E e \in s.zidx : e[2] = id
  /\ ~\E e \in s.pre : e[3] = id
  /\ ~\E e \in s.suf : e[3] = id

\* C3: after delete() of a previously saved entity has returned, the store
\* holds no row, no manifest entry, no index membership and no unique-index
\* entry (simple or composite) owned by its id, get(id) returns None and
\* get_by on the unique value it last persisted returns None.
C3_DeleteLeavesNothing ==
  (res.op = "delete" /\ res.outcome = "ok") =>
    LET id == RawId(res.i)
    IN /\ ~RowExists(store, id)
       /\ ~store.mf[id].has
       /\ NoIndexMember(store, id)
       /\ ~\E t \in store.uidx : t[3] = id
       /\ ~Get(store, id).found
       /\ Oval(res.old, "u") # NULL => ~GetBy(store, "u", Oval(res.old, "u")).found

\* C4: after every successful save() (first, partial or full, whatever calls
\* came before), get(id) finds the entity and returns, for every column, the
\* value the instance held when save() was called; a column that was None
\* is absent from the row.
C4_RoundTrip ==
  (res.op = "save" /\ res.outcome = "ok") =>
    LET id == RawId(res.i)
    IN /\ Get(store, id).found
       /\ \A c \in cls_columns :
            /\ Get(store, id).data[c] = inst[res.i].data[c]
            /\ (inst[res.i].data[c] = NULL) = (store.rows[id][c] = NULL)

\* The index entries _apply_changes generates for value v of column c alone.
OnlyCol(c, v) == [NoData EXCEPT ![c] = v]

\* Where the id is stored among the index entries of column c: set keys,
\* range keys with their score, prefix entries and suffix entries.
MemberOf(s, id, c) ==
  [keys   |-> {e[1] : e \in {m \in s.sidx : m[2] = id /\ m[1][1] = c}},
   scored |-> {<<e[1], e[3]>> : e \in {m \in s.zidx : m[2] = id /\ m[1][1] = c}},
   pre    |-> {<<e[1], e[2]>> : e \in {m \in s.pre : m[3] = id /\ m[1] = c}},
   suf    |-> {<<e[1], e[2]>> : e \in {m \in s.suf : m[3] = id /\ m[1] = c}}]

EntriesFor(c, v) ==
  [keys   |-> KeysOf(OnlyCol(c, v), FALSE),
   scored |-> ScoresOf(OnlyCol(c, v), FALSE),
   pre    |-> PrefixOf(OnlyCol(c, v), FALSE),
   suf    |-> SuffixOf(OnlyCol(c, v), FALSE)]

\* A Lua save of an already saved entity has just succeeded, and it found
\* indexed column c changed from a to b (both not None).
ReindexedSave(c, a, b) ==
  /\ USE_LUA
  /\ res.op = "save"
  /\ res.outcome = "ok"
  /\ res.old[cls_pkey] # NULL
  /\ a # NULL /\ b # NULL /\ a # b
  /\ Oval(res.old, c) = a
  /\ inst[res.i].data[c] = b

\* C5 as stated: after such a save the id is under every entry generated for
\* the new value and under none of the entries generated for the old value,
\* in the set, range, prefix and suffix structures.
C5_NoEntryOfOldValue ==
  \A c \in cls_index \cup cls_prefix \cup cls_suffix :
    \A a \in ColVals(c), b \in ColVals(c) :
      ReindexedSave(c, a, b) =>
        LET m  == MemberOf(store, RawId(res.i), c)
            ea == EntriesFor(c, a)
            eb == EntriesFor(c, b)
        IN /\ eb.keys \subseteq m.keys /\ eb.scored \subseteq m.scored
           /\ eb.pre \subseteq m.pre /\ eb.suf \subseteq m.suf
           /\ ea.keys \cap m.keys = {} /\ ea.scored \cap m.scored = {}
           /\ ea.pre \cap m.pre = {} /\ ea.suf \cap m.suf = {}

\* C5 as amended: after such a save the id is under exactly the entries
\* generated for the new value: under all of them, and under no entry of the
\* old value that the new value does not generate as well.
C5_ExactlyEntriesOfNewValue ==
  \A c \in cls_index \cup cls_prefix \cup cls_suffix :
    \A a \in ColVals(c), b \in ColVals(c) :
      ReindexedSave(c, a, b) =>
        MemberOf(store, RawId(res.i), c) = EntriesFor(c, b)

\* The text column went from 'ab ba' to 'ab': the word 'ab' is generated for
\* both, the word 'ba' for the old value only.
C5_Witness ==
  /\ ReindexedSave("y", <<"a", "b", " ", "b", "a">>, <<"a", "b">>)
  /\ <<<<"y", ":", "a", "b">>, RawId(res.i)>> \in store.sidx
  /\ <<<<"y", ":", "b", "a">>, RawId(res.i)>> \notin store.sidx

\* C6, each save: for the column group (x, y) on the Lua path, a save whose
\* tuple has a None component never raises for the group and adds no entry
\* to the group's index; a save whose tuple has no None raises
\* UniqueKeyViolation, changing nothing, when the group's index maps the
\* tuple to another id, and otherwise passes the group's check and, if it
\* succeeds, owns the tuple.
C6_Step ==
  \A i \in Insts : \A q \in cls_cunique :
    (USE_LUA /\ SaveDone(i)) =>
      LET id    == RawId(i)
          key   == CKey(q)
          tuple == NData(inst[i].data, q)
          owner == HGet(store.uidx, key, EncodeUnique(tuple))
      IN IF HasNone(tuple)
         THEN /\ res'.col # key
              /\ UidxOf(store', key) \subseteq UidxOf(store, key)
         ELSE IF owner \notin {NULL, id}
              THEN res'.outcome = "UniqueKeyViolation" /\ store' = store
              ELSE /\ res'.col # key
                   /\ res'.outcome = "ok" => HGet(store'.uidx, key, EncodeUnique(tuple)) = id

\* C6, the owners: every entry of the group's index is the tuple its owner
\* last saved, and every saved, undeleted entity whose last saved tuple has no
\* None owns that tuple; so "the index maps the tuple to another id" is "an
\* existing different entity holds the same tuple", and entities with
\* different tuples never meet in the index.
C6_Owners ==
  USE_LUA =>
    \A q \in cls_cunique :
      /\ \A t \in UidxOf(store, CKey(q)) :
           \E j \in Insts :
             /\ t[3] = RawId(j)
             /\ ~inst[j].new
             /\ ~HasNone(OData(inst[j].last, q))
             /\ t[2] = EncodeUnique(OData(inst[j].last, q))
      /\ \A i \in Insts :
           (inst[i].exists /\ ~inst[i].new /\ ~inst[i].deleted
              /\ ~HasNone(OData(inst[i].last, q)))
             => HGet(store.uidx, CKey(q), EncodeUnique(OData(inst[i].last, q))) = RawId(i)

C6_CompositeUnique == [][C6_Step]_vars /\ []C6_Owners

\* A save has just raised for the group: another entity owns the same tuple,
\* and both entities exist with different values of the unique column.
C6_Witness ==
  /\ USE_LUA
  /\ res.op = "save"
  /\ res.outcome = "UniqueKeyViolation"
  /\ res.col = "x:y"
  /\ \E j \in Insts \ {res.i} :
       /\ RowExists(store, RawId(j))
       /\ NData(inst[res.i].data, <<"x", "y">>) = OData(inst[j].last, <<"x", "y">>)
       /\ HGet(store.uidx, "x:y", EncodeUnique(OData(inst[j].last, <<"x", "y">>))) = RawId(j)
       /\ inst[j].data["u"] # inst[res.i].data["u"]

\* C7: on the fallback, with one unique column, no step gives the entry of a
\* non-null value (the empty string included) to another primary key: a save
\* whose candidate value the index maps to a different owner raises and
\* never overwrites, however two fallback writers interleave.
C7_Step ==
  ~USE_LUA =>
    \A c \in cls_unique : \A t \in UidxOf(store, c) :
      t[2] # NoneText => HGet(store'.uidx, c, t[2]) \in {NULL, t[3]}

C7_NeverOverwrites == [][C7_Step]_vars

\* The candidate value of the unique column in instance i's current apply.
Candidate(i, c) == Rnval(NewOf(i, ctx[i].op), c)

\* C8, each step of a fallback apply that has met a watch conflict: the
\* ownership check of the re-run raises UniqueKeyViolation and writes nothing
\* when the index now maps the candidate value to a different primary key,
\* and the commit of the re-run happens only over an index that maps the
\* candidate to no other primary key.
C8_Step ==
  \A i \in Insts : \A c \in cls_unique :
    (~USE_LUA /\ ctx[i].conflicts >= 1) =>
      LET id   == Str(PkOf(OldOf(i), NewOf(i, ctx[i].op)))
          ival == HGet(store.uidx, c, Candidate(i, c))
      IN /\ (pc[i] = "hget" /\ pc'[i] # "hget" /\ Truthy(ival) /\ ival # id)
              => /\ res'.outcome = "UniqueKeyViolation" /\ res'.i = i
                 /\ pc'[i] = "idle"
                 /\ store' = store /\ inst' = inst
         /\ (pc[i] = "exec" /\ pc'[i] = "idle")
              => /\ res'.outcome = "ok" /\ res'.i = i
                 /\ ~Truthy(ival) \/ ival = id

\* C8, the count: an apply that met conflicts ran the ownership check once
\* at first and exactly once more for each conflict, whether it committed
\* or raised.
C8_Count ==
  (~USE_LUA /\ res.op # "none" /\ res.conflicts >= 1)
     => res.checks = res.conflicts + 1

C8_RetryRechecks == [][C8_Step]_vars /\ []C8_Count

\* A save met a watch conflict, ran the check again and raised: the writer
\* that committed in between owns the candidate value.
C8_Witness ==
  /\ ~USE_LUA
  /\ res.op = "save"
  /\ res.outcome = "UniqueKeyViolation"
  /\ res.conflicts = 1
  /\ res.checks = 2
  /\ \E j \in Insts \ {res.i} :
       HGet(store.uidx, "u", inst[res.i].data["u"]) = RawId(j)
  /\ ~RowExists(store, RawId(res.i))

\* C9, each step of the fallback loop: an attempt starts again only when
\* pipe.execute() met a watch conflict, it then starts at the top of the
\* loop, and the conflict is not shown to the caller and changes nothing;
\* the loop is left only by returning or by raising UniqueKeyViolation.
C9_Step ==
  \A i \in Insts :
    ~USE_LUA =>
      /\ (pc[i] # "idle" /\ pc'[i] = "watch" /\ pc[i] # "watch")
           => ctx'[i].conflicts = ctx[i].conflicts + 1
      /\ (ctx'[i].conflicts > ctx[i].conflicts)
           => /\ pc[i] = "exec" /\ ctx[i].watching /\ ctx[i].dirty
              /\ pc'[i] = FBLoopTop(OldOf(i), NewOf(i, ctx[i].op), ctx[i].full)
              /\ res'.op = "none"
              /\ store' = store /\ inst' = inst
      /\ (pc[i] # "idle" /\ pc'[i] = "idle")
           => res'.i = i /\ res'.outcome \in {"ok", "UniqueKeyViolation"}

\* C9, termination: the conflicts of one behaviour are finitely many, and
\* every apply that entered the loop leaves it.
C9_Live == \A i \in Insts : (pc[i] # "idle") ~> (pc[i] = "idle")

C9_OnlyWatchErrorRestarts == [][C9_Step]_vars /\ C9_Live

\* An apply that was restarted by a watch conflict has returned.
C9_Witness ==
  /\ ~USE_LUA
  /\ res.op \in {"save", "delete"}
  /\ res.outcome = "ok"
  /\ res.conflicts >= 1
  /\ pc[res.i] = "idle"

\* save(full=False) of an already saved entity, none of whose columns differs
\* from its last-persisted snapshot, has just returned.
UnchangedSave ==
  /\ res.op = "save"
  /\ res.outcome = "ok"
  /\ ~res.full
  /\ res.old[cls_pkey] # NULL
  /\ \A c \in cls_columns : Oval(res.old, c) = inst[res.i].data[c]

\* C10 as stated: such a save returns 0 and issues no write command at all:
\* none to the row, to a unique index, to a secondary index or the manifest.
C10_NoWriteAtAll == UnchangedSave => (res.changes = 0 /\ res.writes = {})

\* C10 as amended: such a save returns 0 and issues no write command to the
\* row and none to the index of a unique column; the commands it does issue
\* go to the secondary indexes, the manifest and the index of a column group.
C10_NoRowOrUniqueColumnWrite ==
  UnchangedSave =>
    /\ res.changes = 0
    /\ \A w \in res.writes :
         /\ w[2] # "row"
         /\ w[2] = "uidx" => w[3] \notin cls_unique
         /\ w[2] \in {"idx", "pre", "suf", "manifest", "uidx"}

\* An unchanged Lua save that set the manifest and the group's entry again.
C10_Witness ==
  /\ USE_LUA
  /\ UnchangedSave
  /\ inst[res.i].data["u"] # NULL
  /\ <<"HSET", "manifest", "">> \in res.writes
  /\ <<"HSET", "uidx", "x:y">> \in res.writes
  /\ <<"ZADD", "pre", "">> \in res.writes

(* --------------------------- Model.get, get_by ------------------------ *)

\* The call of fn has returned or raised.
Returned(fn) == call.fn = fn /\ call.state = "returned"

\* The id is in the session or the store has a row for it.
Resolvable(id) == id \in call.session \/ HGetAll(store, Str(id)) # NoRow

\* The positions of a list of ids that hold a resolvable id, and the k-th.
ResolvablePositions(ids) == {k \in 1..Len(ids) : Resolvable(ids[k])}

NthResolvable(ids, j) ==
  CHOOSE k \in ResolvablePositions(ids) :
    Cardinality({m \in ResolvablePositions(ids) : m < k}) = j - 1

\* The value is the entity of the id: the cached one when the session holds
\* the id, else one built from the row.
EntityOf(e, id) ==
  e = <<(IF id \in call.session THEN "session" ELSE "loaded"), Str(id)[1]>>

\* C11: get(ids) answers in the shape of its argument.  For a single id it
\* returns the entity of that id when the id is in the session or has a row,
\* and None otherwise.  For a list it returns a list that holds, in the order
\* the ids were given, exactly one entity for every position whose id is in
\* the session or has a row, and nothing (no None) for the other positions.
\* This holds whichever of the ids the session holds.
C11_GetShape ==
  Returned("get") =>
    IF call.single
    THEN /\ call.ret.shape = "one"
         /\ IF Resolvable(call.ids) THEN EntityOf(call.ret.val, call.ids)
            ELSE call.ret.val = NULL
    ELSE /\ call.ret.shape = "list"
         /\ Len(call.ret.val) = Cardinality(ResolvablePositions(call.ids))
         /\ \A j \in 1..Len(call.ret.val) :
              EntityOf(call.ret.val[j], call.ids[NthResolvable(call.ids, j)])

\* A list of three ids: the first is in the session, the second resolves
\* nowhere, the third has a row only; two entities came back.
C11_Witness ==
  /\ Returned("get")
  /\ ~call.single
  /\ Len(call.ids) = 3
  /\ call.ids[1] \in call.session
  /\ ~Resolvable(call.ids[2])
  /\ call.ids[3] \notin call.session /\ Resolvable(call.ids[3])
  /\ Len(call.ret.val) = 2
  /\ call.ret.val[2][1] = "loaded"

\* The call names exactly one column, passes no _numeric and no _limit that
\* is refused: the dispatch on the flags of the column is what decides.
PlainCall ==
  /\ Returned("get_by")
  /\ Len(call.kw.cols) = 1
  /\ call.kw.numeric = "absent"
  /\ ~GetByLimitError(GetByLimit(call.kw))

TheColumn == call.kw.cols[1]

TheValue == call.kw.cols[1].value

\* The arguments of the range scan for two bounds: None is the open end.
RangeBounds(lo, hi) ==
  <<IF lo = NULL THEN MinusInf ELSE Str(lo), IF hi = NULL THEN PlusInf ELSE Str(hi)>>

IsRangeOf(out, lo, hi) ==
  /\ out.outcome = "return" /\ out.via = "range"
  /\ SubSeq(out.args, 1, 2) = RangeBounds(lo, hi)
  /\ out.ret.shape = "list"

IsQueryError(out) == out.outcome = "QueryError" /\ out.via = "none"

\* What the claim says of a unique column, and of a column with no flag.
DispatchUnique ==
  TheColumn.unique =>
    CASE TheValue.kind = "tuple" -> IsQueryError(call.out)
      [] TheValue.kind = "list"  ->
           /\ call.out.outcome = "return" /\ call.out.via = "unique"
           /\ call.out.ret.shape = "list"
      [] OTHER ->
           /\ call.out.outcome = "return" /\ call.out.via = "unique"
           /\ call.out.ret.shape = "one"

DispatchNoFlag == (~TheColumn.unique /\ ~TheColumn.index) => IsQueryError(call.out)

DispatchRange ==
  (~TheColumn.unique /\ TheColumn.index) =>
    /\ TheValue.kind = "num" =>
         IsRangeOf(call.out, TheValue.elems[1], TheValue.elems[1])
    /\ (TheValue.kind = "tuple" /\ Len(TheValue.elems) = 2) =>
         IsRangeOf(call.out, TheValue.elems[1], TheValue.elems[2])

IsDelegated(out) == out.outcome = "return" /\ out.via = "query"

\* C12 (as stated): a unique column is answered from the unique index (a
\* single value by an entity or None, a list by a list, a tuple by
\* QueryError); otherwise an indexed column with a number or a pair is
\* answered by a range scan (v is the range (v, v), None an open end);
\* otherwise an indexed column is handed to the query object; a column that
\* is neither unique nor indexed raises QueryError without a lookup.
C12_Dispatch ==
  PlainCall =>
    /\ DispatchUnique
    /\ DispatchNoFlag
    /\ DispatchRange
    /\ (/\ ~TheColumn.unique /\ TheColumn.index
        /\ ~(TheValue.kind = "num")
        /\ ~(TheValue.kind = "tuple" /\ Len(TheValue.elems) = 2))
         => IsDelegated(call.out)

\* C12 (amended): as above, but a tuple that has not exactly two elements
\* raises QueryError without a lookup whatever the flags of the column, and
\* the query object gets the values that are not tuples.
C12_DispatchPairsOnly ==
  PlainCall =>
    /\ DispatchUnique
    /\ DispatchNoFlag
    /\ DispatchRange
    /\ (TheValue.kind = "tuple" /\ Len(TheValue.elems) # 2) => IsQueryError(call.out)
    /\ (/\ ~TheColumn.unique /\ TheColumn.index
        /\ TheValue.kind \notin {"num", "tuple"})
         => IsDelegated(call.out)

\* An indexed column that is not unique was asked for the pair (None, 1) and
\* the range scan from -inf to 1 answered with two entities.
C12_Witness ==
  /\ PlainCall
  /\ ~TheColumn.unique /\ TheColumn.index
  /\ TheValue = [kind |-> "tuple", elems |-> <<NULL, PyInt(1)>>]
  /\ call.out.via = "range"
  /\ call.out.args = <<MinusInf, <<"1">>>>
  /\ Len(call.out.ret.val) = 2

\* C13 (as stated): for a column that is unique and indexed, get_by(col=v,
\* _numeric=True) is accepted and answered by the range scan of (v, v), and
\* the same call without _numeric is answered from the unique index.
C13_NumericForcesRange ==
  (/\ Returned("get_by")
   /\ Len(call.kw.cols) = 1
   /\ TheColumn.unique /\ TheColumn.index
   /\ TheValue.kind = "num"
   /\ ~GetByLimitError(GetByLimit(call.kw)))
    => /\ call.kw.numeric = "True" =>
            IsRangeOf(call.out, TheValue.elems[1], TheValue.elems[1])
       /\ call.kw.numeric = "absent" =>
            (call.out.outcome = "return" /\ call.out.via = "unique")

\* The message of the test of the number of criteria.
CountRefused(out) == out.outcome = "QueryError" /\ out.msg = "exactly one attribute"

\* C14 (as stated): a call with no column criterion or with two or more
\* raises QueryError; a call with exactly one is not refused for the number
\* of its criteria; _limit and _numeric do not count as criteria.
C14_ExactlyOneCriterion ==
  (Returned("get_by") /\ ~GetByLimitError(GetByLimit(call.kw)))
    => /\ Len(call.kw.cols) # 1 => call.out.outcome = "QueryError"
       /\ Len(call.kw.cols) = 1 => ~CountRefused(call.out)

\* Two elements, both integers.
ValidPair(e) == Len(e) = 2 /\ \A k \in 1..2 : IsInteger(e[k])

LimitRefused(out) == out.outcome = "QueryError" /\ out.msg = "Limit" /\ out.via = "none"

\* A range scan gets the pair as its offset and count, after the two bounds.
PairAppended ==
  (Returned("get_by") /\ call.out.via = "range") =>
    IF ValidPair(GetByLimit(call.kw))
    THEN Len(call.out.args) = 4 /\ SubSeq(call.out.args, 3, 4) = call.kw.limit.elems
    ELSE Len(call.out.args) = 2

\* C15 (as stated): a _limit that is passed and is not two integers raises
\* QueryError before any access to the store; a valid pair is appended to
\* the range scan as offset and count.
C15_LimitIsPair ==
  /\ (Returned("get_by") /\ call.kw.limit.given /\ ~ValidPair(call.kw.limit.elems))
       => LimitRefused(call.out)
  /\ PairAppended

\* C15 (amended): a _limit that is not empty and is not two integers raises
\* QueryError before any access to the store; an empty _limit is not refused
\* and the call goes on as with no _limit; a valid pair is appended to the
\* range scan as offset and count.
C15_NonEmptyLimitIsPair ==
  /\ (Returned("get_by") /\ call.kw.limit.given)
       => (LimitRefused(call.out)
             <=> (call.kw.limit.elems # <<>> /\ ~ValidPair(call.kw.limit.elems)))
  /\ PairAppended

\* A range scan that was given the pair (1, 1) after its bounds.
C15_Witness ==
  /\ Returned("get_by")
  /\ call.kw.limit = [given |-> TRUE, elems |-> <<PyInt(1), PyInt(1)>>]
  /\ call.out.via = "range"
  /\ call.out.args = <<MinusInf, PlusInf, PyInt(1), PyInt(1)>>

(* ------------------------------ registration -------------------------- *)

\* The registered types.
Types(models) == {models[key] : key \in DOMAIN models}

\* The names and namespaces of the registered types.
NamesOf(models) == {m.name : m \in Types(models)} \cup {m.namespace : m \in Types(models)}

\* The columns the class statement has: its own and those of its base.
ColumnsOfCall == Odict(call.before, call.base, call.attrs)

\* The class statement uses something the claim ties to scripting.
UsesLuaFeature ==
  \/ \E attr \in AttrNames : ColumnsOfCall[attr] \in {"prefix", "suffix"}
  \/ Cardinality({attr \in AttrNames : ColumnsOfCall[attr] = "unique"}) > 1
  \/ call.ut.given

Collides == call.name \in NamesOf(call.before) \/ call.namespace \in NamesOf(call.before)

\* C16: with USE_LUA false a class statement that has a prefix column, a
\* suffix column, more than one unique column (its own and its base's) or a
\* unique_together is not registered, and what it raises is ColumnError
\* unless its name or namespace is taken; with USE_LUA true no class
\* statement is refused for want of scripting; and a class statement that
\* raises leaves the registry as it was.
C16_LuaOnlyFeatures ==
  Returned("class") =>
    /\ (~USE_LUA /\ UsesLuaFeature) =>
         /\ call.out.error # "none"
         /\ ~Collides => call.out.error = "ColumnError"
    /\ USE_LUA => call.out.msg # "Lua scripting must be enabled"
    /\ (USE_LUA /\ UsesLuaFeature /\ call.out.error # "none") =>
         \/ Collides
         \/ call.out.msg \notin {"", "Lua scripting must be enabled"}
    /\ call.out.error # "none" => MODELS = call.before

\* Without scripting, B inherits the unique column a of its base A, declares
\* the unique column b and is refused; the registry still has A and no B.
C16_Witness ==
  /\ Returned("class")
  /\ ~USE_LUA
  /\ call.name = "B" /\ call.base = "A"
  /\ call.attrs = [NoAttrs EXCEPT !["b"] = "unique"]
  /\ "A" \in DOMAIN MODELS /\ MODELS["A"].unique = {"a"}
  /\ call.out.error = "ColumnError"
  /\ "B" \notin DOMAIN MODELS

\* C17: no two registered types have a name or a namespace in common, every
\* key of the registry is the name or the namespace of the type it maps to,
\* and a class statement whose name or namespace is the name or the
\* namespace of a registered type raises ORMError and leaves the registry as
\* it was.
C17_NoSharedName ==
  /\ \A m1, m2 \in Types(MODELS) :
       m1 # m2 => {m1.name, m1.namespace} \cap {m2.name, m2.namespace} = {}
  /\ \A key \in DOMAIN MODELS : key \in {MODELS[key].name, MODELS[key].namespace}
  /\ \A m \in Types(MODELS) : MODELS[m.name] = m /\ MODELS[m.namespace] = m
  /\ (Returned("class") /\ Collides) =>
       (call.out.error = "ORMError" /\ MODELS = call.before)

\* A is registered; class B with _namespace = 'A' raised ORMError.
C17_Witness ==
  /\ Returned("class")
  /\ call.name = "B" /\ call.namespace = "A"
  /\ "A" \in DOMAIN call.before
  /\ call.out.error = "ORMError"
  /\ "B" \notin DOMAIN MODELS

\* C18 (as stated): every group stored for a registered type has at least
\* two columns, all of them columns of the type, and a class statement with
\* a group of one distinct column, with two groups of the same columns, or
\* with a group that names no column of the type raises ColumnError.
C18_GroupsOfTwo ==
  /\ \A m \in Types(MODELS) : \A g \in m.cunique :
       /\ Cardinality(g) >= 2
       /\ \A col \in g : col \in AttrNames /\ m.columns[col] # "absent"
  /\ (Returned("class") /\ USE_LUA /\ ~Collides) =>
       LET comps == CompositeList(call.ut)
       IN (\/ \E k \in 1..Len(comps) : Cardinality(GroupKey(comps[k])) = 1
           \/ \E j, k \in 1..Len(comps) :
                j # k /\ GroupKey(comps[j]) = GroupKey(comps[k])
           \/ \E k \in 1..Len(comps) : \E col \in GroupKey(comps[k]) :
                col \notin AttrNames \/ WithSynthesizedId(ColumnsOfCall)[col] = "absent")
            => call.out.error = "ColumnError"

\* The primary keys the class statement declares, and those of its base.
DeclaredKeys == {attr \in AttrNames : call.attrs[attr] = "pk"}

KeyRefused ==
  /\ call.out.error = "ColumnError"
  /\ call.out.msg \in {"Only one primary key column allowed",
                       "Cannot have non-primary key named 'id'"}

\* C19 (as stated): every registered type has exactly one primary key.  A
\* class statement that declares one primary key, under any name and with
\* any base, is not refused for its keys and registers with that key; one
\* that declares none and has no column named id registers with the key id;
\* one that declares none and a column named id that is no primary key
\* raises ColumnError; one that declares more than one raises ColumnError.
C19_OnePrimaryKey ==
  /\ \A m \in Types(MODELS) : Cardinality(m.pkey) = 1
  /\ Returned("class") =>
       /\ Cardinality(DeclaredKeys) = 1 =>
            /\ ~KeyRefused
            /\ call.out.error = "none" => call.out.model.pkey = DeclaredKeys
       /\ (DeclaredKeys = {} /\ call.out.error = "none") =>
            call.out.model.pkey = {"id"}
       /\ (DeclaredKeys = {} /\ call.attrs["id"] = "plain" /\ ~Collides) =>
            call.out.error = "ColumnError"
       /\ (Cardinality(DeclaredKeys) > 1 /\ ~Collides) =>
            call.out.error = "ColumnError"

(* ------------------------------ the manifest -------------------------- *)

\* The manifest entry of the id lists exactly where the id is stored: the
\* set keys, the range keys, the prefix entries and the suffix entries.
ManifestExact(s, id) ==
  /\ s.mf[id].keys   = {e[1] : e \in {m \in s.sidx : m[2] = id}}
  /\ s.mf[id].scored = {e[1] : e \in {m \in s.zidx : m[2] = id}}
  /\ s.mf[id].pre    = {<<e[1], e[2]>> : e \in {m \in s.pre : m[3] = id}}
  /\ s.mf[id].suf    = {<<e[1], e[2]>> : e \in {m \in s.suf : m[3] = id}}

\* C20: on the Lua path, in every state and so after every apply of any
\* sequence of saves and deletes, an id that has a manifest entry is stored
\* under exactly the set keys, range keys, prefix and suffix entries the
\* entry lists and under no other index entry, and an id that has none is
\* stored under no index entry; a save that succeeds leaves a manifest entry
\* and a delete that succeeds leaves none.
C20_ManifestExact ==
  /\ \A id \in RawIds :
       IF store.mf[id].has THEN ManifestExact(store, id)
       ELSE NoIndexMember(store, id)
  /\ (USE_LUA /\ res.op = "save" /\ res.outcome = "ok") => store.mf[RawId(res.i)].has
  /\ (USE_LUA /\ res.op = "delete" /\ res.outcome = "ok") => ~store.mf[RawId(res.i)].has

\* The fourth call of a behaviour is a save that succeeded and its manifest
\* entry lists set keys, a range key, prefix entries and suffix entries.
C20_Witness ==
  /\ USE_LUA
  /\ res.op = "save" /\ res.outcome = "ok"
  /\ ops = 4
  /\ store.mf[RawId(res.i)].has
  /\ store.mf[RawId(res.i)].keys # {}
  /\ store.mf[RawId(res.i)].scored # {}
  /\ store.mf[RawId(res.i)].pre # {}
  /\ store.mf[RawId(res.i)].suf # {}
  /\ ManifestExact(store, RawId(res.i))

(* ---------------------------- null exemptions ------------------------- *)

\* The step completes an apply (save or delete) of instance i with success.
ApplyDone(i) == (SaveDone(i) \/ DeleteDone(i)) /\ res'.outcome = "ok"

\* The values (hash fields) of the unique index of a column.
UidxValues(s, col) == {t[2] : t \in UidxOf(s, col)}

\* C21: on both protocols, an apply that succeeds with a null new value of a
\* unique column issues no HSET to the column's unique index, adds no field
\* to it and ran no uniqueness check for it; and an apply that succeeds with
\* a null old value of the column issues no HDEL to the column's unique
\* index and removes no field from it.
C21_Step ==
  \A i \in Insts : \A c \in cls_unique :
    ApplyDone(i) =>
      LET old == inst[i].last
          new == NewOf(i, res'.op)
      IN /\ Nval(new, c) = NULL =>
              /\ <<"HSET", "uidx", c>> \notin res'.writes
              /\ UidxValues(store', c) \subseteq UidxValues(store, c)
              /\ res'.checks = 0
              /\ c \notin {p[1] : p \in UniqueOf(old, new, res'.full)}
         /\ Oval(old, c) = NULL =>
              /\ <<"HDEL", "uidx", c>> \notin res'.writes
              /\ UidxValues(store, c) \subseteq UidxValues(store', c)

ApplyReturned(i) ==
  /\ res'.seq # res.seq
  /\ res'.i = i
  /\ res'.op \in {"save", "delete"}

\* C22: for every composite-unique group an apply sends the removal of the
\* old tuple's entry and the addition of the new tuple's entry only when the
\* old and the new tuple differ, each only when its tuple holds no null; an
\* apply with an unchanged tuple sends neither and, when it succeeds, issues
\* no HSET to the group's unique index.
C22_Step ==
  \A i \in Insts : \A q \in cls_cunique :
    ApplyReturned(i) =>
      LET old == inst[i].last
          new == NewOf(i, res'.op)
          differ == OData(old, q) # NData(new, q)
          adds == \E p \in UniqueOf(old, new, res'.full) : p[1] = CKey(q)
          removes == \E p \in UDeletedOf(old, new, res'.full) : p[1] = CKey(q)
      IN /\ removes => (differ /\ ~HasNone(OData(old, q)))
         /\ adds => (differ /\ ~HasNone(NData(new, q)))
         /\ (~differ /\ res'.outcome = "ok") =>
              <<"HSET", "uidx", CKey(q)>> \notin res'.writes

C22_GroupOnlyOnChange == [][C22_Step]_vars

\* C22 as amended: for every composite-unique group a successful apply
\* issues an HDEL to the group's unique index only when the old and the new
\* tuple differ and the old tuple holds no null, and it leaves the old tuple's
\* entry of this id out of the index then; it issues the HSET of the new
\* tuple's entry whenever the new tuple holds no null, changed or not, and
\* the entry new tuple -> id is in the index afterwards; when the new tuple
\* holds a null it issues no HSET and adds no entry to the group's index.
C22_AmendedStep ==
  \A i \in Insts : \A q \in cls_cunique :
    ApplyDone(i) =>
      LET old == inst[i].last
          new == NewOf(i, res'.op)
          id == RawId(i)
          key == CKey(q)
          differ == OData(old, q) # NData(new, q)
      IN /\ <<"HDEL", "uidx", key>> \in res'.writes =>
              (differ /\ ~HasNone(OData(old, q)))
         /\ (differ /\ ~HasNone(OData(old, q))) =>
              <<key, EncodeUnique(OData(old, q)), id>> \notin store'.uidx
         /\ ~HasNone(NData(new, q)) =>
              /\ <<"HSET", "uidx", key>> \in res'.writes
              /\ <<key, EncodeUnique(NData(new, q)), id>> \in store'.uidx
         /\ HasNone(NData(new, q)) =>
              /\ <<"HSET", "uidx", key>> \notin res'.writes
              /\ UidxOf(store', key) \subseteq UidxOf(store, key)

C22_GroupAddedWheneverNonNull == [][C22_AmendedStep]_vars

\* A successful save that was not full, changed another column and left the
\* group's tuple as it was, and set the group's entry again.
C22_Witness ==
  /\ USE_LUA
  /\ res.op = "save"
  /\ res.outcome = "ok"
  /\ ~res.full
  /\ res.changes > 0
  /\ \E q \in cls_cunique :
       /\ OData(res.old, q) = NData(inst[res.i].data, q)
       /\ ~HasNone(OData(res.old, q))
       /\ <<"HSET", "uidx", CKey(q)>> \in res.writes
       /\ <<"HDEL", "uidx", CKey(q)>> \notin res.writes
       /\ <<CKey(q), EncodeUnique(OData(res.old, q)), RawId(res.i)>> \in store.uidx

(* ------------------------- full and partial saves --------------------- *)

\* The step constructs instance i.
Constructed(i) == ~inst[i].exists /\ inst'[i].exists

\* The row commands a result lists for a column.
RowWrite(r, c) == <<"HMSET", "row", c>> \in r.writes \/ <<"HDEL", "row", c>> \in r.writes

\* C23: the flag _new of an instance is set by its construction, is cleared
\* by each successful save and by nothing else (a failed save and a delete
\* leave it), so it is set exactly while the entity was never successfully
\* saved; an entity built from the store has the flag cleared and the stored
\* row as its snapshot _last; a successful save of an instance whose flag is set is a full
\* rewrite, it counts every column and writes every non-null column to the
\* row, and so does the save retried after a failed one; a successful save
\* of an instance whose flag is cleared, full not requested, issues row
\* commands only for columns whose value differs from the snapshot _last.
C23_Step ==
  \A i \in Insts :
    /\ Constructed(i) => inst'[i].new
    /\ (inst[i].exists /\ inst'[i].new # inst[i].new) =>
         ((SaveDone(i) /\ res'.outcome = "ok") \/ Load(i))
    /\ Load(i) =>
         /\ ~inst'[i].new
         /\ \A c \in cls_columns : inst'[i].last[c] = store.rows[RawId(i)][c]
    /\ (SaveDone(i) /\ res'.outcome = "ok") =>
         LET old == inst[i].last
             new == inst[i].data
         IN /\ ~inst'[i].new
            /\ inst[i].new =>
                 /\ res'.full
                 /\ res'.changes = Cardinality(cls_columns)
                 /\ \A c \in cls_columns :
                      Nval(new, c) # NULL => <<"HMSET", "row", c>> \in res'.writes
            /\ (~inst[i].new /\ ~res'.full) =>
                 \A c \in cls_columns :
                   RowWrite(res', c) => Nval(new, c) # Oval(old, c)

C23_NewMeansFull == [][C23_Step]_vars

\* The save of an entity never saved before succeeded as a full rewrite
\* after its unique column was changed away from the constructor's value,
\* which another row owns: the value the entity's earlier save fails on.
C23_Witness ==
  /\ res.op = "save"
  /\ res.outcome = "ok"
  /\ res.full
  /\ res.seq >= 3
  /\ res.changes = Cardinality(cls_columns)
  /\ res.old[cls_pkey] = NULL
  /\ ~inst[res.i].new
  /\ \E c \in cls_unique :
       /\ Truthy(res.old[c])
       /\ inst[res.i].last[c] # NULL
       /\ res.old[c] # inst[res.i].last[c]
       /\ <<"HMSET", "row", c>> \in res.writes
       /\ <<c, inst[res.i].last[c], RawId(res.i)>> \in store.uidx
       /\ \E j \in Insts \ {res.i} : <<c, res.old[c], RawId(j)>> \in store.uidx

(* ----------------------- unique-index consistency --------------------- *)

\* The value the row of id holds under the unique-index key: the column's
\* stored value, or the encoded tuple of a column group (null when a column
\* of the group is null).
HeldUnder(s, id, key) ==
  IF key \in cls_unique THEN s.rows[id][key]
  ELSE IF \E q \in cls_cunique : CKey(q) = key
  THEN LET q == CHOOSE g \in cls_cunique : CKey(g) = key
           vals == <<s.rows[id][q[1]], s.rows[id][q[2]]>>
       IN IF HasNone(vals) THEN NULL ELSE EncodeUnique(vals)
  ELSE NULL

UniqueKeys == cls_unique \cup {CKey(q) : q \in cls_cunique}

\* C24: on the atomic-script protocol, in every reachable state every entry
\* value -> id of a unique index, of a column or of a column group, names an
\* existing row that holds the value under that column or group, and no two
\* existing rows hold the same non-null value under a unique column or group.
C24_UniqueIndexConsistent ==
  USE_LUA =>
    /\ \A t \in store.uidx :
         /\ RowExists(store, t[3])
         /\ HeldUnder(store, t[3], t[1]) = t[2]
    /\ \A a, b \in RawIds : \A key \in UniqueKeys :
         (/\ a # b
          /\ RowExists(store, a)
          /\ RowExists(store, b)
          /\ HeldUnder(store, a, key) # NULL) =>
           HeldUnder(store, a, key) # HeldUnder(store, b, key)

(* ---------------------- entries of other owners ----------------------- *)

\* C25: on both protocols, a step that completes an apply (save or delete)
\* of the instance with primary key id removes no unique-index field that
\* the index mapped to a different primary key before the step: the field is
\* still in the index afterwards.
C25_Step ==
  \A i \in Insts :
    ApplyReturned(i) =>
      \A t \in store.uidx :
        t[3] # RawId(i) =>
          \E n \in store'.uidx : n[1] = t[1] /\ n[2] = t[2]

C25_NoForeignRemoval == [][C25_Step]_vars

(* ------------------------- orphaned index data ------------------------ *)

\* C26: on the atomic-script protocol, in every reachable state an id has a
\* manifest entry, a membership in a set, range, prefix or suffix index, or
\* a unique-index entry only if the row of that id exists.
C26_NoOrphans ==
  USE_LUA =>
    \A id \in RawIds :
      (\/ store.mf[id].has
       \/ ~NoIndexMember(store, id)
       \/ \E t \in store.uidx : t[3] = id) => RowExists(store, id)

====
